---- MODULE Spec2Model ----
(***************************************************************************)
(* Verification model of the bscradar pool analysis engine.                *)
(*                                                                         *)
(* The module holds several state machines that share one clock:           *)
(*   SpecCache     utils/Cache.js: acquireLock / releaseLock / getOrSet    *)
(*   SpecCacheFair the same machine with the event loop's fairness         *)
(*   SpecAnalyzer  services/PoolAnalyzer.js: analyzeToken, request         *)
(*                 deduplication and cache invalidation                    *)
(*   SpecProvider  services/ProviderService.js: executeWithRetry           *)
(*   SpecProviderFair the same machine; calls settle and timers fire       *)
(*   SpecFetch     services/PoolAnalyzer.js: discoverAllPools,             *)
(*                 batchFetchPoolData, fallbackSequentialFetch             *)
(*   SpecScore     services/PoolAnalyzer.js: selectBestPools, the pool     *)
(*                 scorer and getSwapRecommendation; the router's choice   *)
(*                 of a pool for a leg                                     *)
(*   SpecPrice     services/PriceService.js: arePricesStale,               *)
(*                 fetchTokenPricesFromChain                               *)
(*   SpecPriceFair the same machine; a batched read that was sent settles  *)
(*   SpecServed    services/PoolAnalyzer.js: analyzeToken answering from   *)
(*                 the analysis cache                                      *)
(*   SpecRoutes    services/RouteCacheService.js: refreshCache             *)
(*   SpecRoutesFair the same machine; the analyses of a cycle settle       *)
(*   SpecRouter    services/MultiHopRouterService.js: findBestRoute        *)
(*   SpecAggregate services/PriceService.js: calculateAggregatePrice       *)
(*   SpecBatch     services/MulticallService.js: execute                   *)
(*   SpecFallback  services/PoolAnalyzer.js: fallbackSequentialFetch       *)
(***************************************************************************)
EXTENDS Integers, Sequences, FiniteSets, TLC

(***************************************************************************)
(* Bounds of the model.                                                    *)
(***************************************************************************)
NumCallers == 2
TickMs == 3000
MaxTime == 9000
NumAnalyzers == 2
NumProviders == 2
MaxRetries == 2
MaxFailures == 4
ProvTickMs == 60000
ProvMaxTime == 60000
PoolsPerType == 2
MaxPools == 2
NumRefreshers == 2
MaxAggPools == 3
MaxCalls == 2
MaxMissingPools == 10
PriceTickMs == 15000
PriceMaxTime == 135000
ServedTickMs == 50000
ServedMaxTime == 400000
NumTriggers == 2
RoutesTickMs == 600000
RoutesMaxTime == 1200000

(***************************************************************************)
(* Program constants.                                                      *)
(***************************************************************************)
LOCK_TIMEOUT == 5000
SKIP_WINDOW == 60000
SKIP_FAILURES == 2
MAX_TICK == 887272
MIN_TICK == -887272
TICK_BOUNDARY_THRESHOLD == 100
STATUS_ACTIVE_USD == 1000
STATUS_WARNING_USD == 100
STALE_THRESHOLD == 30000
PRICE_UPDATE_INTERVAL == 60000
MIN_BNB_PRICE == 100
MAX_BNB_PRICE == 2000
MAX_CAKE_PRICE == 100
CACHE_TTL == 300
OUTLIER_FACTOR == 10
LOW_SCORE == 50
BATCH_SIZE == 8

Undefined == "undefined"
Null == "null"
NoLock == -1

Callers == 1..NumCallers
GosKeys == {"k1", "k2"}
GosValues == {"v1"}

VARIABLES
    now,        \* Date.now()
    locks,      \* CacheService.locks: key -> timestamp the lock was set, NoLock when absent
    lockHolder, \* key -> the caller whose acquireLock set the lock that is in the map, 0 when absent
    store,      \* the NodeCache handed to getOrSet: key -> value or Undefined
    gosPc,      \* per caller: position inside getOrSet / acquireLock
    gosKey,     \* per caller: the key argument
    gosStart,   \* per caller: startTime of acquireLock
    gosResult,  \* per caller: value returned by getOrSet
    poolCache,  \* CacheService.poolCache: key -> value or Undefined
    tokenCache, \* CacheService.tokenCache: address -> value or Undefined
    priceCache, \* CacheService.priceCache: address -> value or Undefined
    inFlightRequests, \* PoolAnalyzer.inFlightRequests: key -> analysis promise, NoPromise when absent
    promise,    \* per analysis promise (named by the call that created it): its state
    cur,        \* the call whose synchronous code is running, 0 when the event loop is free
    aPc,        \* per analyzeToken call: position
    aToken,     \* per call: tokenAddress
    aForce,     \* per call: forceRefresh
    aAwaits,    \* per call: the in-flight promise it awaits
    aUpstream,  \* per call: the upstream request it has outstanding, "none" when it has none
    aResult,    \* per call: what analyzeToken returned
    aOlder,     \* per forced call: the analyses of its token that were running when it started and still are
    providers,  \* ProviderService.providers: index -> [failures, lastFailure]
    currentProviderIndex, \* ProviderService.currentProviderIndex
    exec,       \* the executeWithRetry call: position, attempts, i, lastError, what it settled with
    fetch,      \* one discoverAllPools run: position, candidate pools, batch outcomes, pools so far, result
    scorer,     \* the cached analysis of one token (pools, bestPools) and the last swap and route answers
    served,     \* analyzeToken of one token in sequence: the stored analysis, the fresh answer, the cached answer
    routes,     \* RouteCacheService: cache, isRefreshing, the refresh cycles running, the last trigger or settlement
    router,     \* one findBestRoute call: position, the two analyses, the routes found, the error thrown
    aggregate, \* one calculateAggregatePrice call: the pools it was given and the prices it returned
    multicall, \* one MulticallService.execute call: position, the calls given, the results returned, the error thrown
    fallback, \* one fallbackSequentialFetch run: the missing pools, the chunk offset, each per-pool fetch, the results
    oracle      \* PriceService: prices, lastPriceUpdate, fetchLock, the reads in flight, the last call or settlement

cacheVars == <<locks, lockHolder, store, gosPc, gosKey, gosStart, gosResult>>
storeVars == <<poolCache, tokenCache, priceCache>>
analyzerVars == <<inFlightRequests, promise, cur, aPc, aToken, aForce, aAwaits, aUpstream, aResult, aOlder>>
providerVars == <<providers, currentProviderIndex, exec>>
notCacheVars == <<storeVars, analyzerVars, providerVars, fetch, scorer, oracle, served, routes, router, aggregate, multicall, fallback>>
notAnalyzerVars == <<now, cacheVars, providerVars, fetch, scorer, oracle, served, routes, router, aggregate, multicall, fallback>>
notProviderVars == <<cacheVars, storeVars, analyzerVars, fetch, scorer, oracle, served, routes, router, aggregate, multicall, fallback>>
notFetchVars == <<now, cacheVars, storeVars, analyzerVars, providerVars, scorer, oracle, served, routes, router, aggregate, multicall, fallback>>
notScorerVars == <<now, cacheVars, storeVars, analyzerVars, providerVars, fetch, oracle, served, routes, router, aggregate, multicall, fallback>>
notOracleVars == <<cacheVars, storeVars, analyzerVars, providerVars, fetch, scorer, served, routes, router, aggregate, multicall, fallback>>
notServedVars == <<cacheVars, storeVars, analyzerVars, providerVars, fetch, scorer, oracle, routes, router, aggregate, multicall, fallback>>
notRoutesVars == <<cacheVars, storeVars, analyzerVars, providerVars, fetch, scorer, oracle, served, router, aggregate, multicall, fallback>>
notRouterVars == <<cacheVars, storeVars, analyzerVars, providerVars, fetch, scorer, oracle, served, routes, aggregate, multicall, fallback>>
notAggregateVars == <<now, cacheVars, storeVars, analyzerVars, providerVars, fetch, scorer, oracle, served, routes, router, multicall, fallback>>
notMulticallVars == <<now, cacheVars, storeVars, analyzerVars, providerVars, fetch, scorer, oracle, served, routes, router, aggregate, fallback>>
notFallbackVars == <<now, cacheVars, storeVars, analyzerVars, providerVars, fetch, scorer, oracle, served, routes, router, aggregate, multicall>>
vars == <<now, cacheVars, storeVars, analyzerVars, providerVars, fetch, scorer, oracle, served, routes, router, aggregate, multicall, fallback>>

(***************************************************************************)
(* utils/Cache.js                                                          *)
(***************************************************************************)
CacheInit ==
    /\ locks = [k \in GosKeys |-> NoLock]
    /\ lockHolder = [k \in GosKeys |-> 0]
    /\ store = [k \in GosKeys |-> Undefined]
    /\ gosPc = [p \in Callers |-> "idle"]
    /\ gosKey = [p \in Callers |-> "k1"]
    /\ gosStart = [p \in Callers |-> 0]
    /\ gosResult = [p \in Callers |-> Undefined]

\* this.locks.has(key)
LocksHas(k) == locks[k] # NoLock

LockTimedOut_reversed(p) == gosStart[p] - now > LOCK_TIMEOUT

\* Date.now() - startTime > timeout
LockTimedOut(p) == now - gosStart[p] > LOCK_TIMEOUT

\* whose lock is in the map after a step of caller p: a lock is only ever set by
\* acquireLock when the key has none
HolderAfter(p) ==
    [k \in GosKeys |->
        IF locks'[k] = NoLock THEN 0
        ELSE IF locks[k] = NoLock THEN p
        ELSE lockHolder[k]]

\* releaseLock(key): this.locks.delete(key)
ReleaseLock(k) == [locks EXCEPT ![k] = NoLock]

\* A call that has to wait is only started while its lock timeout is still inside the clock's range.
CanStartWait == now + LOCK_TIMEOUT + TickMs <= MaxTime

\* getOrSet entry: first read, then the first iteration of acquireLock's loop
\* (all synchronous up to the first await).
GosCall(p, k) ==
    /\ gosPc[p] = "idle"
    /\ (store[k] = Undefined /\ LocksHas(k)) => CanStartWait
    /\ gosKey' = [gosKey EXCEPT ![p] = k]
    /\ IF store[k] # Undefined
       THEN /\ gosPc' = [gosPc EXCEPT ![p] = "done"]
            /\ gosResult' = [gosResult EXCEPT ![p] = store[k]]
            /\ UNCHANGED <<locks, gosStart>>
       ELSE /\ gosStart' = [gosStart EXCEPT ![p] = now]
            /\ gosResult' = [gosResult EXCEPT ![p] = Undefined]
            /\ IF LocksHas(k)
               THEN /\ gosPc' = [gosPc EXCEPT ![p] = "waiting"]
                    /\ UNCHANGED locks
               ELSE /\ gosPc' = [gosPc EXCEPT ![p] = "locked"]
                    /\ locks' = [locks EXCEPT ![k] = now]
    /\ UNCHANGED <<now, store>>
    /\ lockHolder' = HolderAfter(p)
    /\ UNCHANGED notCacheVars

\* One wake-up of acquireLock's polling loop that leaves the loop:
\* the lock is gone (take it) or the timeout has passed (force-delete it, return false).
GosPoll(p) ==
    /\ gosPc[p] = "waiting"
    /\ IF ~LocksHas(gosKey[p])
       THEN /\ locks' = [locks EXCEPT ![gosKey[p]] = now]
            /\ gosPc' = [gosPc EXCEPT ![p] = "locked"]
       ELSE /\ LockTimedOut(p)
            /\ locks' = ReleaseLock(gosKey[p])
            /\ gosPc' = [gosPc EXCEPT ![p] = "timedout"]
    /\ UNCHANGED <<now, store, gosKey, gosStart, gosResult>>
    /\ lockHolder' = HolderAfter(p)
    /\ UNCHANGED notCacheVars

\* if (!lockAcquired) return cache.get(key)
GosFallThrough(p) ==
    /\ gosPc[p] = "timedout"
    /\ gosResult' = [gosResult EXCEPT ![p] = store[gosKey[p]]]
    /\ gosPc' = [gosPc EXCEPT ![p] = "done"]
    /\ UNCHANGED <<now, locks, store, gosKey, gosStart>>
    /\ lockHolder' = HolderAfter(p)
    /\ UNCHANGED notCacheVars

\* double check under the lock; a hit returns through the finally block
GosDoubleCheck(p) ==
    /\ gosPc[p] = "locked"
    /\ IF store[gosKey[p]] # Undefined
       THEN /\ gosResult' = [gosResult EXCEPT ![p] = store[gosKey[p]]]
            /\ locks' = ReleaseLock(gosKey[p])
            /\ gosPc' = [gosPc EXCEPT ![p] = "done"]
       ELSE /\ gosPc' = [gosPc EXCEPT ![p] = "fetching"]
            /\ UNCHANGED <<locks, gosResult>>
    /\ UNCHANGED <<now, store, gosKey, gosStart>>
    /\ lockHolder' = HolderAfter(p)
    /\ UNCHANGED notCacheVars

\* fetchFn resolves with v; the value is cached unless null/undefined; finally releases
GosFetchReturn(p, v) ==
    /\ gosPc[p] = "fetching"
    /\ store' = IF v # Undefined /\ v # Null
                THEN [store EXCEPT ![gosKey[p]] = v]
                ELSE store
    /\ gosResult' = [gosResult EXCEPT ![p] = v]
    /\ locks' = ReleaseLock(gosKey[p])
    /\ gosPc' = [gosPc EXCEPT ![p] = "done"]
    /\ UNCHANGED <<now, gosKey, gosStart>>
    /\ lockHolder' = HolderAfter(p)
    /\ UNCHANGED notCacheVars

\* fetchFn rejects; the finally block still releases
GosFetchThrow(p) ==
    /\ gosPc[p] = "fetching"
    /\ gosResult' = [gosResult EXCEPT ![p] = "error"]
    /\ locks' = ReleaseLock(gosKey[p])
    /\ gosPc' = [gosPc EXCEPT ![p] = "done"]
    /\ UNCHANGED <<now, store, gosKey, gosStart>>
    /\ lockHolder' = HolderAfter(p)
    /\ UNCHANGED notCacheVars

\* the caller takes the result; it may call again later
GosReturn(p) ==
    /\ gosPc[p] = "done"
    /\ gosPc' = [gosPc EXCEPT ![p] = "idle"]
    /\ gosKey' = [gosKey EXCEPT ![p] = "k1"]
    /\ gosStart' = [gosStart EXCEPT ![p] = 0]
    /\ gosResult' = [gosResult EXCEPT ![p] = Undefined]
    /\ UNCHANGED <<now, locks, store>>
    /\ lockHolder' = HolderAfter(p)
    /\ UNCHANGED notCacheVars

\* time passes
Tick ==
    /\ now + TickMs <= MaxTime
    /\ now' = now + TickMs
    /\ UNCHANGED cacheVars
    /\ UNCHANGED notCacheVars

(***************************************************************************)
(* Strings are sequences of one-character strings, so that the key tests   *)
(* of the cache are computed on the text of the key.                       *)
(***************************************************************************)
\* String.prototype.startsWith
StartsWith(s, pre) == Len(s) >= Len(pre) /\ SubSeq(s, 1, Len(pre)) = pre

\* String.prototype.endsWith
EndsWith(s, suf) == Len(s) >= Len(suf) /\ SubSeq(s, Len(s) - Len(suf) + 1, Len(s)) = suf

\* String.prototype.includes
Includes(s, sub) == \E i \in 1..(Len(s) - Len(sub) + 1) : SubSeq(s, i, i + Len(sub) - 1) = sub

LowerChar(c) == CASE c = "A" -> "a" [] c = "B" -> "b" [] OTHER -> c

\* String.prototype.toLowerCase
ToLowerCase(s) == [i \in 1..Len(s) |-> LowerChar(s[i])]

S_us == <<"_">>
S_analysis == <<"a", "n", "a", "l", "y", "s", "i", "s", "_">>
S_pool == <<"p", "o", "o", "l", "_">>
S_route == <<"r", "o", "u", "t", "e", "_">>
S_v2 == <<"v", "2", "_">>
S_v3 == <<"v", "3", "_">>

\* token addresses as ethers.getAddress returns them (checksum case)
Tokens == {<<"0", "x", "A">>, <<"0", "x", "B">>}

\* validateAddress(address): the lower-cased address
ValidateAddress(a) == ToLowerCase(a)

Addresses == {ValidateAddress(t) : t \in Tokens}

\* the keys setPoolData accepts (validatePoolKey): v2_<addr>, v3_<addr>, <addr>
PoolDataKeys == {S_v2 \o a : a \in Addresses} \cup {S_v3 \o a : a \in Addresses} \cup Addresses

\* `analysis_${address}`
AnalysisKey(t) == S_analysis \o ValidateAddress(t)

PoolCacheKeys == PoolDataKeys \cup {AnalysisKey(t) : t \in Tokens}

(***************************************************************************)
(* utils/Cache.js: the three stores                                        *)
(***************************************************************************)
\* The stores as earlier setPoolData / setPriceData calls have filled them:
\* pool data under every accepted key, a price entry for every token; no analysis yet.
StoreInit ==
    /\ poolCache = [k \in PoolCacheKeys |-> IF k \in PoolDataKeys THEN "data" ELSE Undefined]
    /\ tokenCache = [a \in Addresses |-> Undefined]
    /\ priceCache = [a \in Addresses |-> "data"]

\* getAnalysis(tokenAddress)
GetAnalysis(t) == poolCache[AnalysisKey(t)]

\* setAnalysis(tokenAddress, data)
SetAnalysis(t, data) == [poolCache EXCEPT ![AnalysisKey(t)] = data]

PoolKeyMatches_noSuffix(key, address) ==
    LET keyLower == ToLowerCase(key)
        normalizedAddress == ToLowerCase(address)
    IN  \/ keyLower = normalizedAddress
        \/ StartsWith(keyLower, normalizedAddress \o S_us)
        \/ Includes(keyLower, S_us \o normalizedAddress \o S_us)
        \/ StartsWith(keyLower, S_analysis \o normalizedAddress)
        \/ StartsWith(keyLower, S_pool \o normalizedAddress)
        \/ StartsWith(keyLower, S_route \o normalizedAddress)

\* the filter of clearTokenAnalysis over poolCache.keys()
PoolKeyMatches(key, address) ==
    LET keyLower == ToLowerCase(key)
        normalizedAddress == ToLowerCase(address)
    IN  \/ keyLower = normalizedAddress
        \/ StartsWith(keyLower, normalizedAddress \o S_us)
        \/ EndsWith(keyLower, S_us \o normalizedAddress)
        \/ Includes(keyLower, S_us \o normalizedAddress \o S_us)
        \/ StartsWith(keyLower, S_analysis \o normalizedAddress)
        \/ StartsWith(keyLower, S_pool \o normalizedAddress)
        \/ StartsWith(keyLower, S_route \o normalizedAddress)

\* poolCache.keys()
PoolCacheKeysPresent == {k \in PoolCacheKeys : poolCache[k] # Undefined}

ClearTokenAnalysis_allTokens(t) ==
    LET address == ValidateAddress(t)
        afterDel == [poolCache EXCEPT ![S_analysis \o address] = Undefined]
        poolKeysToDelete == {k \in PoolCacheKeysPresent : afterDel[k] # Undefined /\ PoolKeyMatches(k, address)}
    IN  [pool  |-> [k \in PoolCacheKeys |-> IF k \in poolKeysToDelete THEN Undefined ELSE afterDel[k]],
         token |-> [a \in Addresses |-> Undefined],
         price |-> [priceCache EXCEPT ![address] = Undefined]]

\* clearTokenAnalysis(tokenAddress): the three stores afterwards
ClearTokenAnalysis(t) ==
    LET address == ValidateAddress(t)
        afterDel == [poolCache EXCEPT ![S_analysis \o address] = Undefined]
        poolKeysToDelete == {k \in PoolCacheKeysPresent : afterDel[k] # Undefined /\ PoolKeyMatches(k, address)}
    IN  [pool  |-> [k \in PoolCacheKeys |-> IF k \in poolKeysToDelete THEN Undefined ELSE afterDel[k]],
         token |-> [tokenCache EXCEPT ![address] = Undefined],
         price |-> [priceCache EXCEPT ![address] = Undefined]]

(***************************************************************************)
(* services/PoolAnalyzer.js: analyzeToken                                  *)
(***************************************************************************)
Analyzers == 1..NumAnalyzers
NoPromise == 0

\* `${tokenAddress}:${forceRefresh}`
InFlightKey(t, f) == <<t, f>>
InFlightKeys == {InFlightKey(t, f) : t \in Tokens, f \in BOOLEAN}

\* the result object built by the _performAnalysis run of call p
AnalysisOf(p) == "analysis" \o ToString(p)

NoResult == [value |-> Undefined, cached |-> FALSE, deduplicated |-> FALSE]

AnalyzerInit ==
    /\ inFlightRequests = [k \in InFlightKeys |-> NoPromise]
    /\ promise = [p \in Analyzers |-> "none"]
    /\ cur = 0
    /\ aPc = [p \in Analyzers |-> "idle"]
    /\ aToken = [p \in Analyzers |-> CHOOSE t \in Tokens : TRUE]
    /\ aForce = [p \in Analyzers |-> FALSE]
    /\ aAwaits = [p \in Analyzers |-> NoPromise]
    /\ aUpstream = [p \in Analyzers |-> "none"]
    /\ aResult = [p \in Analyzers |-> NoResult]
    /\ aOlder = [p \in Analyzers |-> {}]

\* this.inFlightRequests.has(inFlightKey)
InFlightHas_never(k) == FALSE

\* this.inFlightRequests.has(inFlightKey)
InFlightHas(k) == inFlightRequests[k] # NoPromise

\* the analyses of token t whose promise is pending
RunningAnalyses(t) == {q \in Analyzers : promise[q] = "pending" /\ aToken[q] = t}

\* a request arrives: analyzeToken(tokenAddress, forceRefresh) starts running
AnalyzeToken(p, t, f) ==
    /\ cur = 0
    /\ aPc[p] = "idle"
    /\ aPc' = [aPc EXCEPT ![p] = "cacheCheck"]
    /\ aToken' = [aToken EXCEPT ![p] = t]
    /\ aForce' = [aForce EXCEPT ![p] = f]
    /\ cur' = p
    /\ aOlder' = [aOlder EXCEPT ![p] = IF f THEN RunningAnalyses(t) ELSE {}]
    /\ UNCHANGED <<inFlightRequests, promise, aAwaits, aUpstream, aResult, storeVars, notAnalyzerVars>>

\* if (!forceRefresh) { cached = getAnalysis; if (cached) return {...cached, meta.cached} }
\* else clearAllCachesForToken(tokenAddress)
AnCacheCheck(p) ==
    /\ cur = p
    /\ aPc[p] = "cacheCheck"
    /\ IF ~aForce[p]
       THEN /\ IF GetAnalysis(aToken[p]) # Undefined
               THEN /\ aResult' = [aResult EXCEPT ![p] =
                          [value |-> GetAnalysis(aToken[p]), cached |-> TRUE, deduplicated |-> FALSE]]
                    /\ aPc' = [aPc EXCEPT ![p] = "done"]
                    /\ cur' = 0
               ELSE /\ aPc' = [aPc EXCEPT ![p] = "dedupCheck"]
                    /\ UNCHANGED <<aResult, cur>>
            /\ UNCHANGED storeVars
       ELSE /\ poolCache' = ClearTokenAnalysis(aToken[p]).pool
            /\ tokenCache' = ClearTokenAnalysis(aToken[p]).token
            /\ priceCache' = ClearTokenAnalysis(aToken[p]).price
            /\ aPc' = [aPc EXCEPT ![p] = "dedupCheck"]
            /\ UNCHANGED <<aResult, cur>>
    /\ UNCHANGED <<inFlightRequests, promise, aToken, aForce, aAwaits, aUpstream, aOlder, notAnalyzerVars>>

\* if (inFlightRequests.has(inFlightKey)) await inFlightRequests.get(inFlightKey)
AnDedupCheck(p) ==
    /\ cur = p
    /\ aPc[p] = "dedupCheck"
    /\ IF InFlightHas(InFlightKey(aToken[p], aForce[p]))
       THEN /\ aAwaits' = [aAwaits EXCEPT ![p] = inFlightRequests[InFlightKey(aToken[p], aForce[p])]]
            /\ aPc' = [aPc EXCEPT ![p] = "awaiting"]
            /\ cur' = 0
       ELSE /\ aPc' = [aPc EXCEPT ![p] = "perform"]
            /\ UNCHANGED <<aAwaits, cur>>
    /\ UNCHANGED <<inFlightRequests, promise, aToken, aForce, aUpstream, aResult, storeVars, aOlder, notAnalyzerVars>>

\* analysisPromise = _performAnalysis(...) runs up to its first await: getTokenInfo reads the
\* token store and on a miss sends the token query; then inFlightRequests.set; await analysisPromise
AnPerform(p) ==
    /\ cur = p
    /\ aPc[p] = "perform"
    /\ aUpstream' = [aUpstream EXCEPT ![p] =
          IF tokenCache[ValidateAddress(aToken[p])] = Undefined THEN "tokenInfo" ELSE "none"]
    /\ promise' = [promise EXCEPT ![p] = "pending"]
    /\ inFlightRequests' = [inFlightRequests EXCEPT ![InFlightKey(aToken[p], aForce[p])] = p]
    /\ aPc' = [aPc EXCEPT ![p] = "tokenInfo"]
    /\ cur' = 0
    /\ UNCHANGED <<aToken, aForce, aAwaits, aResult, storeVars, aOlder, notAnalyzerVars>>

\* getTokenInfo settles. A fetched value is stored (setTokenData); then discoverAllPools sends
\* the discovery batch. A failed token query rejects the analysis.
AnTokenInfo(p, ok) ==
    /\ cur = 0
    /\ aPc[p] = "tokenInfo"
    /\ ~ok => aUpstream[p] = "tokenInfo"
    /\ IF ok
       THEN /\ tokenCache' = IF aUpstream[p] = "tokenInfo"
                             THEN [tokenCache EXCEPT ![ValidateAddress(aToken[p])] = "data"]
                             ELSE tokenCache
            /\ aUpstream' = [aUpstream EXCEPT ![p] = "discovery"]
            /\ aPc' = [aPc EXCEPT ![p] = "discovery"]
            /\ UNCHANGED <<promise, cur>>
       ELSE /\ promise' = [promise EXCEPT ![p] = "rejected"]
            /\ aUpstream' = [aUpstream EXCEPT ![p] = "none"]
            /\ aPc' = [aPc EXCEPT ![p] = "settled"]
            /\ cur' = p
            /\ UNCHANGED tokenCache
    /\ UNCHANGED <<poolCache, priceCache, inFlightRequests, aToken, aForce, aAwaits, aResult, aOlder, notAnalyzerVars>>

\* findAllPoolsForToken resolves; batchFetchPoolData sends the pool-data batches
AnDiscovery(p) ==
    /\ cur = 0
    /\ aPc[p] = "discovery"
    /\ aUpstream' = [aUpstream EXCEPT ![p] = "poolFetch"]
    /\ aPc' = [aPc EXCEPT ![p] = "poolFetch"]
    /\ UNCHANGED <<inFlightRequests, promise, cur, aToken, aForce, aAwaits, aResult, storeVars, aOlder, notAnalyzerVars>>

\* batchFetchPoolData resolves; the result is built, setAnalysis stores it, the promise resolves
AnPoolFetch(p) ==
    /\ cur = 0
    /\ aPc[p] = "poolFetch"
    /\ poolCache' = SetAnalysis(aToken[p], AnalysisOf(p))
    /\ promise' = [promise EXCEPT ![p] = "resolved"]
    /\ aUpstream' = [aUpstream EXCEPT ![p] = "none"]
    /\ aPc' = [aPc EXCEPT ![p] = "settled"]
    /\ cur' = p
    /\ UNCHANGED <<tokenCache, priceCache, inFlightRequests, aToken, aForce, aAwaits, aResult, aOlder, notAnalyzerVars>>

InFlightDelete_kept(k) == inFlightRequests

\* this.inFlightRequests.delete(inFlightKey)
InFlightDelete(k) == [inFlightRequests EXCEPT ![k] = NoPromise]

\* the creating call resumes first: finally { inFlightRequests.delete(inFlightKey) }, then returns or throws
AnFinally(p) ==
    /\ cur = p
    /\ aPc[p] = "settled"
    /\ inFlightRequests' = InFlightDelete(InFlightKey(aToken[p], aForce[p]))
    /\ aResult' = [aResult EXCEPT ![p] =
          IF promise[p] = "resolved"
          THEN [value |-> AnalysisOf(p), cached |-> FALSE, deduplicated |-> FALSE]
          ELSE [value |-> "error", cached |-> FALSE, deduplicated |-> FALSE]]
    /\ aPc' = [aPc EXCEPT ![p] = "done"]
    /\ cur' = 0
    /\ aOlder' = [q \in Analyzers |-> aOlder[q] \ {p}]
    /\ UNCHANGED <<promise, aToken, aForce, aAwaits, aUpstream, storeVars, notAnalyzerVars>>

\* a deduplicated call resumes once the promise it awaits has settled
AnAwaitResume(p) ==
    /\ cur = 0
    /\ aPc[p] = "awaiting"
    /\ promise[aAwaits[p]] \in {"resolved", "rejected"}
    /\ aResult' = [aResult EXCEPT ![p] =
          IF promise[aAwaits[p]] = "resolved"
          THEN [value |-> AnalysisOf(aAwaits[p]), cached |-> FALSE, deduplicated |-> TRUE]
          ELSE [value |-> "error", cached |-> FALSE, deduplicated |-> FALSE]]
    /\ aPc' = [aPc EXCEPT ![p] = "done"]
    /\ UNCHANGED <<inFlightRequests, promise, cur, aToken, aForce, aAwaits, aUpstream, storeVars, aOlder, notAnalyzerVars>>

\* the response is sent; the caller may call again. The continuations of a settled promise
\* run before any new request is served.
AnReturn(p) ==
    /\ cur = 0
    /\ aPc[p] = "done"
    /\ \A q \in Analyzers : ~(aPc[q] = "awaiting" /\ aAwaits[q] = p)
    /\ aPc' = [aPc EXCEPT ![p] = "idle"]
    /\ aToken' = [aToken EXCEPT ![p] = CHOOSE t \in Tokens : TRUE]
    /\ aForce' = [aForce EXCEPT ![p] = FALSE]
    /\ aAwaits' = [aAwaits EXCEPT ![p] = NoPromise]
    /\ aUpstream' = [aUpstream EXCEPT ![p] = "none"]
    /\ aResult' = [aResult EXCEPT ![p] = NoResult]
    /\ promise' = [promise EXCEPT ![p] = "none"]
    /\ aOlder' = [aOlder EXCEPT ![p] = {}]
    /\ UNCHANGED <<inFlightRequests, cur, storeVars, notAnalyzerVars>>

(***************************************************************************)
(* services/ProviderService.js: executeWithRetry                           *)
(***************************************************************************)
NoFailure == -1
ProviderIndexes == 0..(NumProviders - 1)
Errors == {"e1", "e2"}

ExecIdle == [pc |-> "idle", attempts |-> 0, i |-> 0, lastError |-> Null, raised |-> Null, result |-> Undefined]

ProviderInit ==
    /\ providers = [x \in ProviderIndexes |-> [failures |-> 0, lastFailure |-> NoFailure]]
    /\ currentProviderIndex = 0
    /\ exec = ExecIdle

\* providerIndex = (this.currentProviderIndex + i) % this.providers.length
ProviderIndex(i) == (currentProviderIndex + i) % NumProviders

RecentlyFailed_countOnly(provs, x) ==
    /\ provs[x].lastFailure # NoFailure
    /\ provs[x].failures > SKIP_FAILURES

\* lastFailure && Date.now() - lastFailure < 60000 && failures > 2
RecentlyFailed(provs, x) ==
    /\ provs[x].lastFailure # NoFailure
    /\ now - provs[x].lastFailure < SKIP_WINDOW
    /\ provs[x].failures > SKIP_FAILURES

\* The synchronous run of the loops from position (attempts, i) to the next await or the
\* throw: skipped providers are passed over; at the end of a pass attempts++ and either the
\* backoff delay is awaited or the loop ends.
RECURSIVE RunLoop(_, _, _)
RunLoop(provs, attempts, i) ==
    IF i < NumProviders
    THEN IF RecentlyFailed(provs, ProviderIndex(i))
         THEN RunLoop(provs, attempts, i + 1)
         ELSE [pc |-> "calling", attempts |-> attempts, i |-> i]
    ELSE IF attempts + 1 < MaxRetries
         THEN [pc |-> "delay", attempts |-> attempts + 1, i |-> 0]
         ELSE [pc |-> "failed", attempts |-> attempts + 1, i |-> 0]

LastErrorAfter_first(old, error) == IF old = Null THEN error ELSE old

\* lastError = error
LastErrorAfter(old, error) == error

\* `All providers failed ... Last error: ${lastError?.message || 'Unknown'}`
FailureMessage(lastError) == IF lastError = Null THEN "Unknown" ELSE lastError

\* executeWithRetry(operation) is called: runs up to the first await
ExecuteWithRetry ==
    /\ exec.pc = "idle"
    /\ MaxRetries > 0
    /\ LET r == RunLoop(providers, 0, 0)
       IN  exec' = [exec EXCEPT !.pc = r.pc, !.attempts = r.attempts, !.i = r.i,
                                !.result = IF r.pc = "failed" THEN FailureMessage(Null) ELSE Undefined]
    /\ UNCHANGED <<now, providers, currentProviderIndex, notProviderVars>>

ExecOpSucceeds_keepsStart ==
    /\ exec.pc = "calling"
    /\ providers' = [providers EXCEPT ![ProviderIndex(exec.i)] = [failures |-> 0, lastFailure |-> NoFailure]]
    /\ currentProviderIndex' = currentProviderIndex
    /\ exec' = [exec EXCEPT !.pc = "returned", !.result = "result"]
    /\ UNCHANGED <<now, notProviderVars>>

\* await operation(provider) resolves: counters reset, provider becomes current, return result
ExecOpSucceeds ==
    /\ exec.pc = "calling"
    /\ providers' = [providers EXCEPT ![ProviderIndex(exec.i)] = [failures |-> 0, lastFailure |-> NoFailure]]
    /\ currentProviderIndex' = ProviderIndex(exec.i)
    /\ exec' = [exec EXCEPT !.pc = "returned", !.result = "result"]
    /\ UNCHANGED <<now, notProviderVars>>

\* await operation(provider) rejects with error: catch block, then the loops run on
ExecOpFails(error) ==
    /\ exec.pc = "calling"
    /\ providers[ProviderIndex(exec.i)].failures < MaxFailures
    /\ LET x == ProviderIndex(exec.i)
           provs == [providers EXCEPT ![x] = [failures |-> @.failures + 1, lastFailure |-> now]]
           r == RunLoop(provs, exec.attempts, exec.i + 1)
           lastError == LastErrorAfter(exec.lastError, error)
       IN  /\ providers' = provs
           /\ exec' = [pc |-> r.pc, attempts |-> r.attempts, i |-> r.i,
                       lastError |-> lastError, raised |-> error,
                       result |-> IF r.pc = "failed" THEN FailureMessage(lastError) ELSE Undefined]
    /\ UNCHANGED <<now, currentProviderIndex, notProviderVars>>

\* the backoff timer fires: the next pass starts
ExecDelayDone ==
    /\ exec.pc = "delay"
    /\ LET r == RunLoop(providers, exec.attempts, 0)
       IN  exec' = [exec EXCEPT !.pc = r.pc, !.attempts = r.attempts, !.i = r.i,
                                !.result = IF r.pc = "failed" THEN FailureMessage(exec.lastError) ELSE Undefined]
    /\ UNCHANGED <<now, providers, currentProviderIndex, notProviderVars>>

\* the caller has the outcome; a later call may follow
ExecDone ==
    /\ exec.pc \in {"returned", "failed"}
    /\ exec' = ExecIdle
    /\ UNCHANGED <<now, providers, currentProviderIndex, notProviderVars>>

\* time passes
ProvTick ==
    /\ now + ProvTickMs <= ProvMaxTime
    /\ now' = now + ProvTickMs
    /\ UNCHANGED <<providerVars, notProviderVars>>

(***************************************************************************)
(* services/PoolAnalyzer.js: discoverAllPools, batchFetchPoolData          *)
(***************************************************************************)
PoolTypes == {"V2", "V3"}

\* the candidate pools discovery can find: <<type, n>> is the address of the n-th pool of a type
PoolInfos == {[address |-> <<t, n>>, type |-> t] : t \in PoolTypes, n \in 1..PoolsPerType}

\* what the chain holds for a pool. Pools of a type cycle through four kinds:
\*   1: both sides funded, small value     2: nothing in the pool
\*   3: both sides funded, large value     0: V2 with one empty side / V3 with its tick at the boundary
ChainData(info) ==
    LET kind == info.address[2] % 4
    IN  [address   |-> info.address,
         reserve0  |-> IF kind \in {1, 3} THEN 5 ELSE 0,
         reserve1  |-> IF kind = 2 THEN 0 ELSE 5,
         liquidity |-> IF kind = 2 THEN 0 ELSE 7,
         tick      |-> IF kind = 0 THEN MAX_TICK - 50 ELSE 0,
         valueUSD  |-> CASE kind = 1 -> 50 [] kind = 2 -> 0 [] kind = 3 -> 2000 [] OTHER -> 500]

\* chain data of an array of pools, in the array's order
ChainDataOf(pools) == [k \in 1..Len(pools) |-> ChainData(pools[k])]

\* the pools of an array that are in a set, in the array's order
Among(pools, set) == SelectSeq(pools, LAMBDA p : p \in set)

\* the elements of an array
Elems(seq) == {seq[k] : k \in 1..Len(seq)}

\* a set of pool infos as an array, in address order
RECURSIVE AsArray(_)
AsArray(set) ==
    IF set = {} THEN <<>>
    ELSE LET first == CHOOSE x \in set : \A y \in set :
                          \/ x.type = "V2" /\ y.type = "V3"
                          \/ x.type = y.type /\ x.address[2] <= y.address[2]
         IN  <<first>> \o AsArray(set \ {first})

\* status from the pool's USD value (enrichPoolData)
LiquidityStatus(totalValueUSD, isEmpty) ==
    IF totalValueUSD >= STATUS_ACTIVE_USD THEN "ACTIVE"
    ELSE IF totalValueUSD >= STATUS_WARNING_USD THEN "WARNING_LIQUIDITY"
    ELSE IF isEmpty THEN "EMPTY"
    ELSE "LOW_LIQUIDITY"

\* enrichPoolData(poolData, poolInfo, tokenInfo, type, protocol);
\* amounts are kept as integers where the code keeps their decimal strings
EnrichPoolData(poolData, type) ==
    IF type = "V2"
    THEN [address |-> poolData.address, type |-> "V2",
          reserves |-> [present |-> TRUE, reserve0 |-> poolData.reserve0, reserve1 |-> poolData.reserve1],
          liquidity |-> [raw |-> poolData.reserve0,
                         totalValueUSD |-> poolData.valueUSD,
                         status |-> LiquidityStatus(poolData.valueUSD,
                                        poolData.valueUSD <= 0 /\ poolData.reserve0 <= 0 /\ poolData.reserve1 <= 0)]]
    ELSE LET isTickAtBoundary == \/ poolData.tick >= MAX_TICK - TICK_BOUNDARY_THRESHOLD
                                 \/ poolData.tick <= MIN_TICK + TICK_BOUNDARY_THRESHOLD
             isZeroLiquidity == poolData.liquidity = 0
         IN  IF isTickAtBoundary \/ isZeroLiquidity
             THEN [address |-> poolData.address, type |-> "V3",
                   reserves |-> [present |-> FALSE, reserve0 |-> 0, reserve1 |-> 0],
                   liquidity |-> [raw |-> 0, totalValueUSD |-> 0, status |-> "RUGGED"]]
             ELSE [address |-> poolData.address, type |-> "V3",
                   reserves |-> [present |-> FALSE, reserve0 |-> 0, reserve1 |-> 0],
                   liquidity |-> [raw |-> poolData.liquidity,
                                  totalValueUSD |-> poolData.valueUSD,
                                  status |-> LiquidityStatus(poolData.valueUSD, poolData.liquidity <= 0)]]

\* the enrichment of every pool of one protocol's data
EnrichAll(data, type) == [k \in 1..Len(data) |-> EnrichPoolData(data[k], type)]

HasLiquidity_activeOnly(poolData) == poolData.liquidity.status = "ACTIVE"

\* the hasLiquidity test of discoverAllPools
HasLiquidity(poolData) ==
    \/ poolData.liquidity.raw # 0
    \/ poolData.reserves.present /\ (poolData.reserves.reserve0 # 0 \/ poolData.reserves.reserve1 # 0)
    \/ poolData.liquidity.status = "ACTIVE"

NoProtocolStatus == [status |-> "skipped", pools |-> 0, error |-> Null, returned |-> 0]

FetchIdle ==
    [phase |-> "idle", pools |-> <<>>,
     v2Result |-> [data |-> <<>>, error |-> Null], v3Result |-> [data |-> <<>>, error |-> Null],
     protocolStatus |-> [pancakeswapV2 |-> NoProtocolStatus, pancakeswapV3 |-> NoProtocolStatus],
     enrichedPools |-> <<>>, missingPools |-> <<>>,
     result |-> [partialResults |-> FALSE, pools |-> <<>>]]

FetchInit == fetch = FetchIdle

\* pools.filter(p => p.type === type)
PoolsOfType(pools, type) == SelectSeq(pools, LAMBDA p : p.type = type)

\* the ways one protocol's batch can settle: nothing to fetch; rejected with an error
\* (.catch gives {data: [], error}); resolved with the pools whose sub-calls decoded
BatchOutcomes(typePools) ==
    IF typePools = <<>>
    THEN {[data |-> <<>>, error |-> Null]}
    ELSE {[data |-> <<>>, error |-> e] : e \in Errors}
         \cup {[data |-> ChainDataOf(Among(typePools, got)), error |-> Null] :
                   got \in SUBSET Elems(typePools)}

\* status = pools.length === 0 ? 'skipped' : error ? 'failed' : 'success'
ProtocolStatusOf(typePools, res) ==
    [status   |-> IF Len(typePools) = 0 THEN "skipped" ELSE IF res.error # Null THEN "failed" ELSE "success",
     pools    |-> Len(typePools),
     error    |-> res.error,
     returned |-> Len(res.data)]

\* discoverAllPools: discovery has resolved with the candidate pools; batchFetchPoolData
\* sends the two protocol batches (or returns at once when there is no candidate)
FetchDiscovered(found) ==
    /\ fetch.phase = "idle"
    /\ fetch' = [fetch EXCEPT !.pools = AsArray(found),
                              !.phase = IF found = {} THEN "filter" ELSE "batches"]
    /\ UNCHANGED notFetchVars

\* both protocol batches have settled: status per protocol, enrichment of what was
\* returned, and the pools of a protocol that returned nothing go to the sequential fetch
FetchBatchesSettle(v2Result, v3Result) ==
    /\ fetch.phase = "batches"
    /\ LET v2Pools == PoolsOfType(fetch.pools, "V2")
           v3Pools == PoolsOfType(fetch.pools, "V3")
           enriched == EnrichAll(v2Result.data, "V2") \o EnrichAll(v3Result.data, "V3")
           missing == (IF Len(v2Pools) > 0 /\ Len(v2Result.data) = 0 THEN v2Pools ELSE <<>>)
                      \o (IF Len(v3Pools) > 0 /\ Len(v3Result.data) = 0 THEN v3Pools ELSE <<>>)
       IN  /\ v2Result \in BatchOutcomes(v2Pools)
           /\ v3Result \in BatchOutcomes(v3Pools)
           /\ fetch' = [fetch EXCEPT
                  !.v2Result = v2Result, !.v3Result = v3Result,
                  !.protocolStatus = [pancakeswapV2 |-> ProtocolStatusOf(v2Pools, v2Result),
                                      pancakeswapV3 |-> ProtocolStatusOf(v3Pools, v3Result)],
                  !.enrichedPools = enriched,
                  !.missingPools = missing,
                  !.phase = IF missing = <<>> THEN "filter" ELSE "fallback"]
    /\ UNCHANGED notFetchVars

\* fallbackSequentialFetch(missingPools) has resolved: a pool whose fetch failed is null
\* and is left out. got: the pools fetched; their data is taken in the enriched form.
FetchFallbackSettle(got) ==
    /\ fetch.phase = "fallback"
    /\ got \subseteq Elems(fetch.missingPools)
    /\ LET fetched == Among(fetch.missingPools, got)
           sequentialResults ==
               [k \in 1..Len(fetched) |-> EnrichPoolData(ChainData(fetched[k]), fetched[k].type)]
       IN  fetch' = [fetch EXCEPT !.enrichedPools = @ \o sequentialResults, !.phase = "filter"]
    /\ UNCHANGED notFetchVars

\* discoverAllPools drops the pools without liquidity; _performAnalysis builds the result
FetchFilter ==
    /\ fetch.phase = "filter"
    /\ LET allPools == SelectSeq(fetch.enrichedPools, HasLiquidity)
           failedProtocols == {n \in DOMAIN fetch.protocolStatus : fetch.protocolStatus[n].status = "failed"}
       IN  fetch' = [fetch EXCEPT !.result = [partialResults |-> failedProtocols # {}, pools |-> allPools],
                                  !.phase = "done"]
    /\ UNCHANGED notFetchVars

\* the analysis has returned
FetchReturn ==
    /\ fetch.phase = "done"
    /\ fetch' = FetchIdle
    /\ UNCHANGED notFetchVars

(***************************************************************************)
(* services/PoolAnalyzer.js: selectBestPools, calculateSmartRecommendation, *)
(* analyzePoolForTrade, performSafetyChecks, getSwapRecommendation;         *)
(* services/MultiHopRouterService.js: findBestPoolForPair.                  *)
(* USD amounts are in dollars; token amounts in thousandths of a token,     *)
(* BNB amounts in thousandths of a BNB, prices in thousandths of a dollar   *)
(* and costs in thousandths of a percent, where the code has floats.        *)
(***************************************************************************)
S_WBNB == <<"W", "B", "N", "B">>
S_USDC == <<"U", "S", "D", "C">>
S_USDT == <<"U", "S", "D", "T">>
S_BUSD == <<"B", "U", "S", "D">>
S_CAKE == <<"C", "A", "K", "E">>
S_DAI == <<"D", "A", "I">>
S_USDBC == <<"U", "S", "D", "B", "C">>
S_USDCE == <<"U", "S", "D", "C", ".", "E">>

UpperChar(c) == CASE c = "a" -> "A" [] c = "k" -> "K" [] c = "e" -> "E" [] OTHER -> c

\* String.prototype.toUpperCase
ToUpperCase(s) == [i \in 1..Len(s) |-> UpperChar(s[i])]

\* normalizeAddress(addr)
NormalizeAddress(addr) == ToLowerCase(addr)

\* the base tokens the pools pair the analysed token with: symbol as the token contract
\* gives it, address in checksum case
PairTokens ==
    [wbnb |-> [symbol |-> S_WBNB, address |-> <<"0", "x", "B", "b">>],
     usdt |-> [symbol |-> S_USDT, address |-> <<"0", "x", "5", "5">>],
     cake |-> [symbol |-> <<"C", "a", "k", "e">>, address |-> <<"0", "x", "0", "A">>]]

\* a pool as formatPoolsWithPricing builds it; tick and sqrtPriceX96 exist on V3 pools only
FormattedPool(address, type, fee, status, usd, token0, token1, raw, inUSD, inBNB, pairToken, isToken0) ==
    LET formattedPool ==
            [address |-> address, protocol |-> "PancakeSwap", type |-> type, pairToken |-> pairToken,
             fee |-> fee,
             liquidity |-> [status |-> status, usd |-> usd, token0 |-> token0, token1 |-> token1, raw |-> raw],
             price |-> [inUSD |-> inUSD, inBNB |-> inBNB],
             isToken0 |-> isToken0]
    IN  IF type = "V3" THEN [tick |-> 0, sqrtPriceX96 |-> 1] @@ formattedPool ELSE formattedPool

\* the pools an analysis can hold for the token:
\*   1 shallow V3 pool with the lowest fee        2 deep V2 pool
\*   3 V3 pool whose pair side has been drained   4 V3 pool enrichPoolData marked RUGGED
\*   5 V3 pool holding the pair token only        6 small V2 pool      7 V2 pool under $100
FormattedPools ==
    {FormattedPool(1, "V3", 500, LiquidityStatus(20000, FALSE), 20000, 1000000, 20000, 7, 10000, 20,
                   PairTokens.wbnb, TRUE),
     FormattedPool(2, "V2", 2500, LiquidityStatus(2000000, FALSE), 2000000, 2000000, 100000000, 2000000, 10100, 20,
                   PairTokens.wbnb, FALSE),
     FormattedPool(3, "V3", 2500, LiquidityStatus(1500, FALSE), 1500, 150000, 0, 7, 10000, 20,
                   PairTokens.wbnb, TRUE),
     FormattedPool(4, "V3", 100, "RUGGED", 0, 0, 0, 0, 900000, 1800,
                   PairTokens.wbnb, TRUE),
     FormattedPool(5, "V3", 2500, LiquidityStatus(120, FALSE), 120, 4000, 0, 7, 9000, 18,
                   PairTokens.cake, FALSE),
     FormattedPool(6, "V2", 2500, LiquidityStatus(500, FALSE), 500, 25000, 250000, 25000, 10000, 20,
                   PairTokens.usdt, TRUE),
     FormattedPool(7, "V2", 2500, LiquidityStatus(50, FALSE), 50, 2500, 25000, 2500, 10000, 20,
                   PairTokens.usdt, TRUE)}

\* the arrays of at most MaxPools different pools
PoolArrays ==
    {pools \in UNION {[1..n -> FormattedPools] : n \in 0..MaxPools} :
         \A i, j \in DOMAIN pools : i # j => pools[i].address # pools[j].address}

\* null where a pool is expected
NoPool == [isNull |-> TRUE]

IsPool(p) == "address" \in DOMAIN p

\* Math.abs
Abs(x) == IF x < 0 THEN -x ELSE x

\* Math.max
Max(x, y) == IF x > y THEN x ELSE y

\* (num / den) * 1000 rounded down, computed without leaving the 32-bit range
Thousandths(num, den) == (num \div den) * 1000 + ((num % den) * 1000) \div den

\* the per-symbol minimum of the pair token reserve (MIN_*_RESERVE)
MinPairReserve(pairSymbol) ==
    IF pairSymbol = S_WBNB THEN 1
    ELSE IF pairSymbol \in {S_USDC, S_USDT, S_BUSD} THEN 10000
    ELSE IF pairSymbol = S_CAKE THEN 5000
    ELSE 10000

\* the reserve of the side opposite the analysed token
PairTokenAmount(pool) == IF pool.isToken0 THEN pool.liquidity.token1 ELSE pool.liquidity.token0

\* the reserve of the analysed token's side
TargetTokenAmount(pool) == IF pool.isToken0 THEN pool.liquidity.token0 ELSE pool.liquidity.token1

\* performSafetyChecks(pool, tradeAmountUSD, liquidityUSD, bnbPrice). A formatted V3 pool
\* always has a tick and a non-empty sqrtPriceX96 string; priceService has no
\* getAggregatePrice, so the pool's own price is the reference and priceDeviation is 0.
PerformSafetyChecks(pool, tradeAmountUSD, liquidityUSD) ==
    LET noLiquidityInRange == pool.type = "V3" /\ pool.liquidity.raw = 0
        priceDeviation == 0
        liquidityOr1 == IF liquidityUSD = 0 THEN 1 ELSE liquidityUSD
        sandwichRisk == IF tradeAmountUSD * 10 > liquidityOr1 THEN "CRITICAL"
                        ELSE IF tradeAmountUSD * 20 > liquidityOr1 THEN "HIGH"
                        ELSE IF tradeAmountUSD * 100 > liquidityOr1 THEN "MEDIUM"
                        ELSE "LOW"
        pairSymbol == ToUpperCase(pool.pairToken.symbol)
        rugPull == PairTokenAmount(pool) < MinPairReserve(pairSymbol)
        inactive == pool.liquidity.status # "ACTIVE"
        isStablePair == pairSymbol \in {S_USDC, S_USDT, S_DAI, S_USDBC, S_USDCE}
        volatilePair == tradeAmountUSD > 10000 /\ ~isStablePair /\ pairSymbol # S_WBNB
        highFee == pool.fee > 10000
        afterV3 == 100 - (IF noLiquidityInRange THEN 50 ELSE 0)
        afterSandwich == afterV3 - (CASE sandwichRisk = "CRITICAL" -> 30 [] sandwichRisk = "HIGH" -> 15 [] OTHER -> 0)
        afterDepth == afterSandwich - (IF liquidityUSD < 1000 THEN 30 ELSE IF liquidityUSD < 10000 THEN 15 ELSE 0)
        afterRug == IF rugPull THEN 0 ELSE afterDepth
        afterStatus == afterRug - (IF inactive THEN 20 ELSE 0)
        afterPair == afterStatus - (IF volatilePair THEN 10 ELSE 0)
        safetyScore == afterPair - (IF highFee THEN 15 ELSE 0)
    IN  [safetyScore    |-> Max(0, safetyScore),
         warnings       |-> (IF noLiquidityInRange THEN <<"V3_NO_LIQUIDITY_IN_RANGE">> ELSE <<>>)
                            \o (CASE sandwichRisk = "CRITICAL" -> <<"SANDWICH_ATTACK_CRITICAL">>
                                  [] sandwichRisk = "HIGH" -> <<"SANDWICH_ATTACK_HIGH">>
                                  [] OTHER -> <<>>)
                            \o (IF liquidityUSD < 1000 THEN <<"EXTREMELY_LOW_LIQUIDITY">>
                                ELSE IF liquidityUSD < 10000 THEN <<"LOW_LIQUIDITY">> ELSE <<>>)
                            \o (IF rugPull THEN <<"RUG_PULL_DETECTED">> ELSE <<>>)
                            \o (IF inactive THEN <<"POOL_INACTIVE">> ELSE <<>>)
                            \o (IF volatilePair THEN <<"VOLATILE_PAIR_FOR_LARGE_TRADE">> ELSE <<>>)
                            \o (IF highFee THEN <<"UNUSUALLY_HIGH_FEE">> ELSE <<>>),
         isUntradeable  |-> noLiquidityInRange \/ rugPull,
         priceDeviation |-> priceDeviation,
         sandwichRisk   |-> sandwichRisk,
         v3InRange      |-> ~noLiquidityInRange]

\* calculateRiskLevel(liquidityRatio, safetyChecks, tradeAmountUSD), liquidityRatio being
\* liquidityUSD / tradeAmountUSD
CalculateRiskLevel(liquidityUSD, safetyChecks, tradeAmountUSD) ==
    LET byLiquidity == IF liquidityUSD < 5 * tradeAmountUSD THEN "HIGH"
                       ELSE IF liquidityUSD < 20 * tradeAmountUSD THEN "MEDIUM"
                       ELSE "LOW"
        bySafety == IF safetyChecks.safetyScore < 50 THEN "CRITICAL"
                    ELSE IF safetyChecks.safetyScore < 70 /\ byLiquidity # "CRITICAL" THEN "HIGH"
                    ELSE IF safetyChecks.safetyScore < 85 /\ byLiquidity = "LOW" THEN "MEDIUM"
                    ELSE byLiquidity
        bySandwich == IF safetyChecks.sandwichRisk = "CRITICAL" THEN "CRITICAL"
                      ELSE IF safetyChecks.sandwichRisk = "HIGH" /\ bySafety # "CRITICAL" THEN "HIGH"
                      ELSE bySafety
    IN  IF tradeAmountUSD > 50000 /\ bySandwich = "LOW" THEN "MEDIUM" ELSE bySandwich

\* estimateSlippage(pool, tradeAmountUSD, liquidityUSD, safetyChecks)
EstimateSlippage(pool, tradeAmountUSD, liquidityUSD, safetyChecks) ==
    IF liquidityUSD <= 0 THEN 100000
    ELSE IF ~safetyChecks.v3InRange THEN 50000
    ELSE IF pool.type = "V2" THEN Thousandths(tradeAmountUSD * 50, liquidityUSD)
    ELSE IF pool.type = "V3" THEN Thousandths(tradeAmountUSD * 50, liquidityUSD * 5)
    ELSE Thousandths(tradeAmountUSD * 50, liquidityUSD)

\* analyzePoolForTrade(pool, tradeAmountUSD, bnbPrice): the fields of its result that the
\* selection and the swap answer read
AnalyzePoolForTrade(pool, tradeAmountUSD) ==
    LET liquidityUSD == pool.liquidity.usd
        feePercent == (IF pool.fee = 0 THEN 3000 ELSE pool.fee) \div 10
        safetyChecks == PerformSafetyChecks(pool, tradeAmountUSD, liquidityUSD)
        estimated == EstimateSlippage(pool, tradeAmountUSD, liquidityUSD, safetyChecks)
        slippagePercent == IF safetyChecks.priceDeviation > 5
                           THEN estimated + safetyChecks.priceDeviation * 1000 ELSE estimated
    IN  [tradeable |-> /\ ~safetyChecks.isUntradeable
                       /\ liquidityUSD > 0
                       /\ liquidityUSD * 10 >= tradeAmountUSD
                       /\ safetyChecks.safetyScore >= 30,
         riskLevel |-> CalculateRiskLevel(liquidityUSD, safetyChecks, tradeAmountUSD),
         costs     |-> [feePercent |-> feePercent, slippagePercent |-> slippagePercent,
                        totalCostPercent |-> feePercent + slippagePercent],
         safety    |-> [score |-> safetyChecks.safetyScore, warnings |-> safetyChecks.warnings,
                        priceDeviation |-> safetyChecks.priceDeviation,
                        sandwichRisk |-> safetyChecks.sandwichRisk,
                        v3InRange |-> safetyChecks.v3InRange]]

\* the value of a comparator: negative when a sorts before b. A subtraction that reads a
\* property the object does not have gives NaN, and NaN > 0.01 is false.
Order(by, a, b) ==
    CASE by = "liquidity" ->
             IF a.liquidity.usd > 0 \/ b.liquidity.usd > 0
             THEN b.liquidity.usd - a.liquidity.usd
             ELSE (b.liquidity.token0 + b.liquidity.token1) - (a.liquidity.token0 + a.liquidity.token1)
      [] by = "priceUSD" -> b.price.inUSD - a.price.inUSD
      [] by = "priceBNB" -> b.price.inBNB - a.price.inBNB
      [] by = "fee" -> a.fee - b.fee
      [] by = "protocol" -> b.liquidity.usd - a.liquidity.usd
      [] by = "recommended" ->
             IF /\ "totalCostPercent" \in DOMAIN a
                /\ "totalCostPercent" \in DOMAIN b
                /\ Abs(a.totalCostPercent - b.totalCostPercent) > 10
             THEN a.totalCostPercent - b.totalCostPercent
             ELSE b.liquidity.usd - a.liquidity.usd
      [] by = "route" ->
             LET liquidityDiff == b.liquidity.usd - a.liquidity.usd
             IN  IF Abs(liquidityDiff) > 1000 THEN liquidityDiff
                 ELSE (IF a.fee = 0 THEN 10000 ELSE a.fee) - (IF b.fee = 0 THEN 10000 ELSE b.fee)

\* [...array].sort(comparator)[0] of a non-empty array: the sort is stable, so it is the
\* earliest of the elements no other element sorts before
First(by, array) ==
    array[CHOOSE i \in 1..Len(array) :
              /\ \A j \in 1..Len(array) : Order(by, array[j], array[i]) >= 0
              /\ \A j \in 1..(i - 1) : Order(by, array[i], array[j]) < 0]

FirstOrNull(by, array) == IF Len(array) > 0 THEN First(by, array) ELSE NoPool

\* calculateSmartRecommendation(pools, tradeAmountUSD); tradeAmountUSD is 0 for null.
\* A scored pool is {...pool, ...analysis}.
CalculateSmartRecommendation(pools, tradeAmountUSD) ==
    LET tradeSize == IF tradeAmountUSD = 0 THEN 1000 ELSE tradeAmountUSD
        scoredPools == [k \in 1..Len(pools) |-> AnalyzePoolForTrade(pools[k], tradeSize) @@ pools[k]]
        sorted == SelectSeq(scoredPools, LAMBDA p : p.tradeable)
    IN  IF Len(sorted) = 0
        THEN IF Len(pools) > 0
             THEN [score |-> 0, reason |-> "No optimal pool found"] @@ pools[1]
             ELSE NoPool
        ELSE [tradeAmountUSD |-> tradeSize, liquidityUSD |-> First("recommended", sorted).liquidity.usd]
             @@ First("recommended", sorted)

\* calculateRecommendedPool(pools)
CalculateRecommendedPool(pools) == CalculateSmartRecommendation(pools, 0)

IsActivePool_any(p) == TRUE

\* the filter of selectBestPools
IsActivePool(p) == p.liquidity.status = "ACTIVE" \/ p.liquidity.status = "WARNING_LIQUIDITY"

\* selectBestPools(pools)
SelectBestPools(pools) ==
    LET activePools == SelectSeq(pools, IsActivePool)
    IN  IF Len(activePools) = 0
        THEN [byLiquidity |-> NoPool, byPriceUSD |-> NoPool, byPriceBNB |-> NoPool, byFee |-> NoPool,
              byProtocol |-> [pancakeswap |-> NoPool], recommended |-> NoPool]
        ELSE [byLiquidity |-> First("liquidity", activePools),
              byPriceUSD  |-> FirstOrNull("priceUSD", SelectSeq(activePools, LAMBDA p : p.price.inUSD > 0)),
              byPriceBNB  |-> FirstOrNull("priceBNB", SelectSeq(activePools, LAMBDA p : p.price.inBNB > 0)),
              byFee       |-> First("fee", activePools),
              byProtocol  |-> [pancakeswap |->
                                  FirstOrNull("protocol",
                                      SelectSeq(activePools, LAMBDA p : p.protocol = "PancakeSwap"))],
              recommended |-> CalculateRecommendedPool(activePools)]

\* findBestPoolForPair(pools, pairTokenAddress)
FindBestPoolForPair(pools, pairTokenAddress) ==
    LET normalizedPair == NormalizeAddress(pairTokenAddress)
        matchingPools == SelectSeq(pools, LAMBDA pool :
                             /\ NormalizeAddress(pool.pairToken.address) = normalizedPair
                             /\ pool.liquidity.status = "ACTIVE")
    IN  FirstOrNull("route", matchingPools)

\* evaluateDirectRoute: the pool of the single leg, null when there is no direct route
DirectPool(pools, tokenOut) ==
    LET directPools == SelectSeq(pools, LAMBDA pool :
                           /\ NormalizeAddress(pool.pairToken.address) = NormalizeAddress(tokenOut)
                           /\ pool.liquidity.status = "ACTIVE")
    IN  FirstOrNull("route", directPools)

\* getSwapRecommendation(tokenAddress, tradeAmountBNB) for a valid address
GetSwapRecommendation(cached, pools, bnbPrice, tradeAmountBNB) ==
    LET tradeAmountUSD == (tradeAmountBNB * bnbPrice) \div 1000
        activePools == SelectSeq(pools, LAMBDA p :
                           p.liquidity.status = "ACTIVE" \/ p.liquidity.status = "WARNING_LIQUIDITY")
        recommendation == CalculateSmartRecommendation(activePools, tradeAmountUSD)
        safetyScore == IF "safety" \in DOMAIN recommendation THEN recommendation.safety.score ELSE 100
        riskLevel == IF "riskLevel" \in DOMAIN recommendation THEN recommendation.riskLevel ELSE "LOW"
    IN  IF ~cached THEN [error |-> "TOKEN_NOT_CACHED"]
        ELSE IF bnbPrice <= 0 THEN [error |-> "ETH_PRICE_UNAVAILABLE"]
        ELSE IF tradeAmountUSD > 500000 THEN [error |-> "TRADE_TOO_LARGE"]
        ELSE IF Len(activePools) = 0 THEN [error |-> "NO_ACTIVE_POOLS"]
        ELSE IF riskLevel = "CRITICAL" \/ safetyScore < 30
        THEN [success |-> FALSE, blocked |-> TRUE, error |-> "SWAP_BLOCKED_UNSAFE",
              riskLevel |-> "CRITICAL", safetyScore |-> safetyScore]
        ELSE [success |-> TRUE,
              trade |-> [amountBNB |-> tradeAmountBNB, amountUSD |-> tradeAmountUSD],
              pool |-> [address |-> recommendation.address, type |-> recommendation.type,
                        fee |-> recommendation.fee, liquidityUSD |-> recommendation.liquidity.usd],
              safety |-> [riskLevel |-> riskLevel, safetyScore |-> safetyScore]]

\* no answer yet
NoAnswer == [none |-> TRUE]

ScorerIdle ==
    [cached |-> FALSE, pools |-> <<>>, bestPools |-> NoAnswer,
     swap |-> NoAnswer, route |-> NoAnswer]

ScorerInit == scorer = ScorerIdle

\* the BNB price the price service holds (0: not fetched) and the amounts asked for
BnbPrices == {0, 500}
TradeAmountsBNB == {200, 40000, 200000, 1200000}

\* the addresses a route is asked through, as the caller writes them
RouteTokens == {PairTokens.wbnb.address, NormalizeAddress(PairTokens.wbnb.address), PairTokens.usdt.address}

\* _performAnalysis: the formatted pools and their bestPools go into the result, and
\* the result into the cache
ScoreAnalysis(pools) ==
    /\ ~scorer.cached
    /\ scorer' = [scorer EXCEPT !.cached = TRUE, !.pools = pools, !.bestPools = SelectBestPools(pools)]
    /\ UNCHANGED notScorerVars

\* getSwapRecommendation answers from the cached analysis
ScoreSwap(bnbPrice, tradeAmountBNB) ==
    /\ scorer' = [scorer EXCEPT !.swap =
                      [bnbPrice |-> bnbPrice, tradeAmountBNB |-> tradeAmountBNB,
                       answer |-> GetSwapRecommendation(scorer.cached, scorer.pools, bnbPrice, tradeAmountBNB)]]
    /\ UNCHANGED notScorerVars

\* the router picks the pool of a leg through an intermediate, and of the direct route
ScoreRoute(token) ==
    /\ scorer.cached
    /\ scorer' = [scorer EXCEPT !.route =
                      [token |-> token,
                       legPool |-> FindBestPoolForPair(scorer.pools, token),
                       directPool |-> DirectPool(scorer.pools, token)]]
    /\ UNCHANGED notScorerVars

\* the cached analysis expires or is cleared
ScoreExpire ==
    /\ scorer.cached
    /\ scorer' = ScorerIdle
    /\ UNCHANGED notScorerVars

(***************************************************************************)
(* services/PriceService.js: arePricesStale, fetchTokenPricesFromChain     *)
(*                                                                         *)
(* Units: the BNB price is in dollars, the CAKE price in cents, the CAKE   *)
(* price in BNB decoded from the pool in 1/10000 BNB.                      *)
(***************************************************************************)
Refreshers == 1..NumRefreshers
NotReading == -1
PriceSites == {"analysis", "warmCache"}

NoPriceCall == [kind |-> "none"]
NoPrices == [isNull |-> TRUE]

\* constructor: prices seeded with the defaults, lastPriceUpdate = Date.now(), lock free,
\* the provider service not loaded yet
OracleInit ==
    oracle = [bnbPriceUSD |-> 600, cakePrice |-> 250, lastPriceUpdate |-> 0, fetchLock |-> FALSE,
              providerService |-> Null,
              reading |-> [p \in Refreshers |-> NotReading], last |-> NoPriceCall]

ArePricesStale(o, t) == t - o.lastPriceUpdate > STALE_THRESHOLD

\* { bnb: this.bnbPriceUSD, cake: this.basePrices[CAKE] }
CachedPrices(o) == [bnb |-> o.bnbPriceUSD, cake |-> o.cakePrice]

FetchLocked_never(o) == FALSE

FetchLocked(o) == o.fetchLock

InBnbBand_closed(bnbPrice) == bnbPrice > 0 /\ bnbPrice >= MIN_BNB_PRICE /\ bnbPrice <= MAX_BNB_PRICE

InBnbBand(bnbPrice) == bnbPrice > 0 /\ bnbPrice > MIN_BNB_PRICE /\ bnbPrice < MAX_BNB_PRICE

\* cakePrice > 0.1 && cakePrice < 100, in cents
InCakeBand(cakePrice) == cakePrice > 0 /\ cakePrice > 10 /\ cakePrice < MAX_CAKE_PRICE * 100

\* what the batched read can settle with: executeWithRetry throws, or each pool's pair of
\* sub-calls succeeds or not and decodes to a price
DecodedBnbPrices == {0, 100, 300, 2000, 5000}
DecodedCakePricesInBNB == {0, 50, 5000}
ReadOutcomes ==
    {[thrown |-> TRUE, bnbOk |-> FALSE, bnb |-> 0, cakeOk |-> FALSE, cakeInBNB |-> 0]}
    \cup {[thrown |-> FALSE, bnbOk |-> FALSE, bnb |-> 0, cakeOk |-> FALSE, cakeInBNB |-> 0]}
    \cup {[thrown |-> FALSE, bnbOk |-> TRUE, bnb |-> b, cakeOk |-> FALSE, cakeInBNB |-> 0] : b \in DecodedBnbPrices}
    \cup {[thrown |-> FALSE, bnbOk |-> FALSE, bnb |-> 0, cakeOk |-> TRUE, cakeInBNB |-> c] : c \in DecodedCakePricesInBNB}
    \cup {[thrown |-> FALSE, bnbOk |-> TRUE, bnb |-> b, cakeOk |-> TRUE, cakeInBNB |-> c] :
              b \in DecodedBnbPrices, c \in DecodedCakePricesInBNB}

\* let bnbPrice after the inner try
DecodedBnbPrice(o, outcome) ==
    IF ~outcome.thrown /\ outcome.bnbOk THEN outcome.bnb ELSE o.bnbPriceUSD

\* let cakePrice after the inner try
DecodedCakePrice(o, outcome) ==
    IF ~outcome.thrown /\ outcome.cakeOk /\ DecodedBnbPrice(o, outcome) > 0
    THEN (outcome.cakeInBNB * DecodedBnbPrice(o, outcome)) \div 100
    ELSE IF o.cakePrice = 0 THEN 250 ELSE o.cakePrice

\* A caller reaches fetchTokenPricesFromChain: _performAnalysis calls it when
\* arePricesStale(), warmCache calls it always. The code up to the await runs in one
\* piece: the interval test, the lock test, the lock, getProviderService(), the batched
\* read sent. getProviderService() builds the provider service on its first use, which
\* throws when no endpoint can be set up (loaded = FALSE); the outer catch then returns
\* the cached prices.
FetchTokenPricesFromChain(p, site, loaded) ==
    /\ oracle.reading[p] = NotReading
    /\ LET pricesStale == ArePricesStale(oracle, now)
           called == site = "warmCache" \/ pricesStale
           inProgress == \E q \in Refreshers : oracle.reading[q] # NotReading
           withinInterval == now - oracle.lastPriceUpdate < PRICE_UPDATE_INTERVAL
           locked == called /\ ~withinInterval /\ ~FetchLocked(oracle)
           issued == locked /\ loaded
       IN /\ ~loaded => (locked /\ oracle.providerService = Null)
          /\ oracle' = [oracle EXCEPT
              !.fetchLock = IF locked THEN TRUE ELSE @,
              !.providerService = IF issued THEN "providerService" ELSE @,
              !.reading[p] = IF issued THEN now ELSE @,
              !.last = [kind |-> "call", caller |-> p, site |-> site, pricesStale |-> pricesStale,
                        called |-> called, inProgress |-> inProgress, locked |-> locked,
                        issued |-> issued,
                        returned |-> IF called /\ ~issued THEN CachedPrices(oracle) ELSE NoPrices]]
    /\ UNCHANGED <<now, notOracleVars>>

\* the batched read settles: decode, release the lock, keep the prices inside their
\* bands, lastPriceUpdate = the now taken on entry
FetchPricesSettle(p, outcome) ==
    /\ oracle.reading[p] # NotReading
    /\ LET bnbPrice == DecodedBnbPrice(oracle, outcome)
           cakePrice == DecodedCakePrice(oracle, outcome)
       IN oracle' = [oracle EXCEPT
              !.fetchLock = FALSE,
              !.bnbPriceUSD = IF InBnbBand(bnbPrice) THEN bnbPrice ELSE @,
              !.cakePrice = IF InCakeBand(cakePrice) THEN cakePrice ELSE @,
              !.lastPriceUpdate = oracle.reading[p],
              !.reading[p] = NotReading,
              !.last = [kind |-> "settle", caller |-> p, outcome |-> outcome,
                        lastPriceUpdate |-> oracle.lastPriceUpdate,
                        before |-> CachedPrices(oracle),
                        decoded |-> [bnb |-> bnbPrice, cake |-> cakePrice],
                        returned |-> [bnb |-> bnbPrice, cake |-> cakePrice]]]
    /\ UNCHANGED <<now, notOracleVars>>

PriceTick ==
    /\ now + PriceTickMs <= PriceMaxTime
    /\ now' = now + PriceTickMs
    /\ UNCHANGED <<oracle, notOracleVars>>

(***************************************************************************)
(* services/PoolAnalyzer.js: the answer of a fresh analysis and the answer *)
(* served from the analysis cache                                          *)
(***************************************************************************)
\* new Date(t).toISOString() and new Date(iso).getTime(): the string keeps milliseconds
ToISOString(t) == <<"iso", t>>
GetTime(iso) == iso[2]

\* Math.round(x / 1000)
RoundToSeconds(x) == (x + 500) \div 1000

AnalysisPools == {"pools1", "pools2"}

\* the result object of _performAnalysis: pools stands for the fields computed from the
\* chain (token, pricing, summary, bestPools, pools, analysis, warnings)
AnalysisResult(pools, totalMs, pricesStale, partialResults, t) ==
    [pools |-> pools,
     performance |-> [totalMs |-> totalMs],
     meta |-> [timestamp |-> ToISOString(t), cached |-> FALSE, cacheKey |-> "T",
               ttlSeconds |-> CACHE_TTL, bnbPrice |-> oracle.bnbPriceUSD, pricesStale |-> pricesStale,
               partialResults |-> partialResults]]

CachedAnalysisResponse_restamped(cached, t) ==
    [cached EXCEPT !.meta =
        [cacheAgeMs |-> t - GetTime(cached.meta.timestamp),
         cacheAgeSec |-> RoundToSeconds(t - GetTime(cached.meta.timestamp)),
         fresh |-> t - GetTime(cached.meta.timestamp) < 60000]
        @@ [cached.meta EXCEPT !.cached = TRUE, !.timestamp = ToISOString(t)]]

\* { ...cached, meta: { ...cached.meta, cached: true, cacheAgeMs, cacheAgeSec, fresh } }
CachedAnalysisResponse(cached, t) ==
    [cached EXCEPT !.meta =
        [cacheAgeMs |-> t - GetTime(cached.meta.timestamp),
         cacheAgeSec |-> RoundToSeconds(t - GetTime(cached.meta.timestamp)),
         fresh |-> t - GetTime(cached.meta.timestamp) < 60000]
        @@ [cached.meta EXCEPT !.cached = TRUE]]

ServedIdle == [stored |-> NoAnswer, expires |-> 0, first |-> NoAnswer, second |-> NoAnswer]

ServedInit == served = ServedIdle

\* this.cache.getAnalysis(tokenAddress): the entry, unless its TTL has run out
StoredAnalysis == IF served.stored # NoAnswer /\ now <= served.expires THEN served.stored ELSE NoAnswer

\* analyzeToken(T) with nothing cached: _performAnalysis builds the result, setAnalysis
\* stores it, the call returns it
AnalyzeTokenFresh(pools, totalMs, pricesStale, partialResults) ==
    /\ StoredAnalysis = NoAnswer
    /\ LET result == AnalysisResult(pools, totalMs, pricesStale, partialResults, now)
       IN served' = [stored |-> result, expires |-> now + CACHE_TTL * 1000,
                     first |-> result, second |-> NoAnswer]
    /\ UNCHANGED <<now, notServedVars>>

\* analyzeToken(T) with the analysis cached
AnalyzeTokenCached ==
    /\ StoredAnalysis # NoAnswer
    /\ served' = [served EXCEPT !.second = CachedAnalysisResponse(StoredAnalysis, now)]
    /\ UNCHANGED <<now, notServedVars>>

ServedTick ==
    /\ now + ServedTickMs <= ServedMaxTime
    /\ now' = now + ServedTickMs
    /\ UNCHANGED <<served, notServedVars>>

(***************************************************************************)
(* services/RouteCacheService.js: refreshCache                             *)
(***************************************************************************)
Triggers == 1..NumTriggers
NoEntry == -1
NoTrigger == [kind |-> "none"]

\* PAIRS_TO_CACHE, two of its pairs
RoutePairs == {<<"WBNB", "USDT">>, <<"USDT", "WBNB">>}

\* constructor: empty cache, isRefreshing false
RoutesInit ==
    routes = [cache |-> [pair \in RoutePairs |-> NoEntry], isRefreshing |-> FALSE,
              running |-> [t \in Triggers |-> FALSE], last |-> NoTrigger]

IsRefreshing_never(r) == FALSE

\* if (this.isRefreshing) return
IsRefreshing(r) == r.isRefreshing

\* A trigger (the initial refresh or an interval tick) calls refreshCache: it returns at
\* once when a cycle is running; otherwise it sets isRefreshing and sends the analyses
\* of the unique tokens.
RefreshCache(t) ==
    /\ ~routes.running[t]
    /\ LET inProgress == \E u \in Triggers : routes.running[u]
           started == ~IsRefreshing(routes)
       IN routes' = [routes EXCEPT
              !.isRefreshing = IF started THEN TRUE ELSE @,
              !.running[t] = started,
              !.last = [kind |-> "trigger", caller |-> t, inProgress |-> inProgress, started |-> started]]
    /\ UNCHANGED <<now, notRoutesVars>>

IsRefreshingAfterCycle_kept(r) == r.isRefreshing

\* this.isRefreshing = false, after the pair loop
IsRefreshingAfterCycle(r) == FALSE

\* Promise.allSettled resolves: the pairs whose from-token analysis holds an ACTIVE pool
\* for the pair are cached with the current time; isRefreshing = false
RefreshCacheSettle(t, found) ==
    /\ routes.running[t]
    /\ routes' = [routes EXCEPT
           !.cache = [pair \in RoutePairs |-> IF pair \in found THEN now ELSE @[pair]],
           !.isRefreshing = IsRefreshingAfterCycle(routes),
           !.running[t] = FALSE,
           !.last = [kind |-> "settle", caller |-> t, found |-> found]]
    /\ UNCHANGED <<now, notRoutesVars>>

RoutesTick ==
    /\ now + RoutesTickMs <= RoutesMaxTime
    /\ now' = now + RoutesTickMs
    /\ UNCHANGED <<routes, notRoutesVars>>

(***************************************************************************)
(* services/MultiHopRouterService.js: findBestRoute                        *)
(***************************************************************************)
\* INTERMEDIATES, three of them
Intermediates == {"WBNB", "USDT", "CAKE"}

\* what analyzeToken(...).catch(err => null) gives when the analysis fails
NullAnalysis == [isNull |-> TRUE]

\* an analysis, as far as the router reads it: the intermediates its token has an ACTIVE
\* pool with, and whether a pool pairs it with the other token of the request
RouterAnalyses == [pairs : SUBSET Intermediates, direct : BOOLEAN]

\* the order of Object.entries(INTERMEDIATES)
IntermediateOrder == <<"WBNB", "USDT", "CAKE">>

\* PRIMARY_INTERMEDIATES x SECONDARY_INTERMEDIATES, as far as the intermediates above go
ThreeHopPairs == {<<"WBNB", "CAKE">>, <<"USDT", "CAKE">>}

\* the score calculateRouteScore gives a route: one below the threshold, one above
RouteScores == {40, 120}

\* the score of the route through each intermediate and of the direct route, if found
RouteScoreInputs == [Intermediates \cup {"direct"} -> RouteScores]

RouterIdle ==
    [pc |-> "idle", tokenInAnalysis |-> NullAnalysis, tokenOutAnalysis |-> NullAnalysis,
     found |-> <<>>, threeHop |-> {}, routes |-> <<>>, error |-> Null]

RouterInit == router = RouterIdle

BothAnalysed_either(tokenInAnalysis, tokenOutAnalysis) ==
    tokenInAnalysis # NullAnalysis \/ tokenOutAnalysis # NullAnalysis

\* !(!tokenInAnalysis || !tokenOutAnalysis)
BothAnalysed(tokenInAnalysis, tokenOutAnalysis) ==
    tokenInAnalysis # NullAnalysis /\ tokenOutAnalysis # NullAnalysis

\* evaluateRoute for every intermediate in order, then evaluateDirectRoute: the routes
\* array in the order the routes were pushed
TwoHopAndDirectRoutes(tokenInAnalysis, tokenOutAnalysis, scores) ==
    LET common == SelectSeq(IntermediateOrder,
                            LAMBDA m : m \in tokenInAnalysis.pairs \cap tokenOutAnalysis.pairs)
    IN  [k \in 1..Len(common) |-> [type |-> "multi-hop", via |-> common[k], score |-> scores[common[k]]]]
        \o (IF tokenInAnalysis.direct
            THEN <<[type |-> "direct", via |-> "none", score |-> scores["direct"]]>>
            ELSE <<>>)

\* routes.length === 0 || (routes.length > 0 && routes[0].score < 50)
TriesThreeHop(allRoutes) == Len(allRoutes) = 0 \/ allRoutes[1].score < LOW_SCORE

\* routes.sort((a, b) => (b.score || 0) - (a.score || 0)): highest score first, equal
\* scores in the order they had
RECURSIVE SortByScore(_)
SortByScore(allRoutes) ==
    IF Len(allRoutes) = 0 THEN <<>>
    ELSE LET best == CHOOSE k \in 1..Len(allRoutes) :
                       /\ \A j \in 1..Len(allRoutes) : allRoutes[k].score >= allRoutes[j].score
                       /\ \A j \in 1..(k - 1) : allRoutes[j].score < allRoutes[k].score
         IN  <<allRoutes[best]>> \o
             SortByScore(SubSeq(allRoutes, 1, best - 1) \o SubSeq(allRoutes, best + 1, Len(allRoutes)))

\* findBestRoute(tokenIn, tokenOut, amountIn) is called: both analyses are requested
FindBestRoute ==
    /\ router.pc = "idle"
    /\ router' = [router EXCEPT !.pc = "analyzing"]
    /\ UNCHANGED <<now, notRouterVars>>

\* Promise.all resolves with each analysis or null; the null test; the two-hop and direct
\* routes; the three-hop search is started when there is no route or the first scores low,
\* otherwise the routes are sorted and returned.
\* Past the null test, reading .pools of a null analysis throws a TypeError.
RouterAnalysesSettle(tokenInAnalysis, tokenOutAnalysis, scores) ==
    /\ router.pc = "analyzing"
    /\ IF ~BothAnalysed(tokenInAnalysis, tokenOutAnalysis)
       THEN router' = [RouterIdle EXCEPT !.pc = "failed", !.tokenInAnalysis = tokenInAnalysis,
                       !.tokenOutAnalysis = tokenOutAnalysis,
                       !.error = "Failed to analyze one or both tokens"]
       ELSE IF tokenInAnalysis = NullAnalysis \/ tokenOutAnalysis = NullAnalysis
       THEN router' = [RouterIdle EXCEPT !.pc = "failed", !.tokenInAnalysis = tokenInAnalysis,
                       !.tokenOutAnalysis = tokenOutAnalysis, !.error = "TypeError"]
       ELSE LET allRoutes == TwoHopAndDirectRoutes(tokenInAnalysis, tokenOutAnalysis, scores)
            IN router' = IF TriesThreeHop(allRoutes)
                         THEN [pc |-> "threeHop", tokenInAnalysis |-> tokenInAnalysis,
                               tokenOutAnalysis |-> tokenOutAnalysis, found |-> allRoutes,
                               threeHop |-> ThreeHopPairs, routes |-> allRoutes, error |-> Null]
                         ELSE [pc |-> "returned", tokenInAnalysis |-> tokenInAnalysis,
                               tokenOutAnalysis |-> tokenOutAnalysis, found |-> allRoutes,
                               threeHop |-> {}, routes |-> SortByScore(allRoutes), error |-> Null]
    /\ UNCHANGED <<now, notRouterVars>>

\* the three-hop search ends, each pair with a route or without; no route at all is an
\* error, otherwise the routes are sorted and returned
RouterThreeHopSettle(foundPairs, score) ==
    /\ router.pc = "threeHop"
    /\ LET threeHopRoutes == SelectSeq(<<<<"WBNB", "CAKE">>, <<"USDT", "CAKE">>>>,
                                       LAMBDA pair : pair \in foundPairs)
           allRoutes == router.routes \o
               [k \in 1..Len(threeHopRoutes) |->
                   [type |-> "3-hop", via |-> threeHopRoutes[k][1], score |-> score]]
       IN router' = [router EXCEPT
              !.routes = SortByScore(allRoutes),
              !.pc = IF Len(allRoutes) = 0 THEN "failed" ELSE "returned",
              !.error = IF Len(allRoutes) = 0 THEN "No valid route found between tokens" ELSE Null]
    /\ UNCHANGED <<now, notRouterVars>>

\* the caller has the answer; the next request may come
RouterDone ==
    /\ router.pc \in {"returned", "failed"}
    /\ router' = RouterIdle
    /\ UNCHANGED <<now, notRouterVars>>

(***************************************************************************)
(* services/PriceService.js: calculateAggregatePrice, the USD side.        *)
(* Prices and liquidities are whole numbers and the arithmetic is exact:   *)
(* an average is kept as the pair of sums it is the quotient of.           *)
(***************************************************************************)
\* priceInUSD of a pool as calculatePoolPrices gives it; 0 when the pool has no price
AggPrices == {0, 1, 10, 100, 101}

\* pool.liquidity?.usd || 0
AggLiquidities == {0, 1, 9}

AggPools == [priceInUSD : AggPrices, liquidityUSD : AggLiquidities]

AggPoolLists == UNION {[1..n -> AggPools] : n \in 0..MaxAggPools}

\* a price of 0
ZeroPrice == [num |-> 0, den |-> 1]

AggregateIdle == [pc |-> "idle", pools |-> <<>>, medianUSD |-> 0, avgPriceUSD |-> ZeroPrice]

AggregateInit == aggregate = AggregateIdle

\* array.sort((a, b) => a - b)
RECURSIVE SortAscending(_)
SortAscending(seq) ==
    IF Len(seq) = 0 THEN <<>>
    ELSE LET least == CHOOSE k \in 1..Len(seq) : \A j \in 1..Len(seq) : seq[k] <= seq[j]
         IN  <<seq[least]>> \o SortAscending(SubSeq(seq, 1, least - 1) \o SubSeq(seq, least + 1, Len(seq)))

\* poolsWithPrices.filter(p => p.priceInUSD > 0).map(p => p.priceInUSD).sort(...)
ValidUSDPrices(pools) ==
    LET priced == SelectSeq(pools, LAMBDA p : p.priceInUSD > 0)
    IN  SortAscending([k \in 1..Len(priced) |-> priced[k].priceInUSD])

\* validUSDPrices[Math.floor(validUSDPrices.length / 2)], 0 for an empty array
MedianUSD(pools) ==
    LET validUSDPrices == ValidUSDPrices(pools)
    IN  IF Len(validUSDPrices) > 0 THEN validUSDPrices[(Len(validUSDPrices) \div 2) + 1] ELSE 0

\* the outlier filter without its band: every priced pool is kept
InUSDBand_all(priceInUSD, medianUSD) == TRUE

\* medianUSD === 0 || (priceInUSD >= medianUSD * 0.1 && priceInUSD <= medianUSD * 10)
InUSDBand(priceInUSD, medianUSD) ==
    \/ medianUSD = 0
    \/ /\ priceInUSD * OUTLIER_FACTOR >= medianUSD
       /\ priceInUSD <= medianUSD * OUTLIER_FACTOR

\* the second pass: the pools that enter the weighted sums
RECURSIVE WeightedUSD(_, _)
WeightedUSD(pools, medianUSD) ==
    IF Len(pools) = 0 THEN [totalWeightedUSD |-> 0, totalLiquidityUSD |-> 0]
    ELSE LET pool == Head(pools)
             rest == WeightedUSD(Tail(pools), medianUSD)
         IN  IF /\ pool.priceInUSD > 0
                /\ pool.liquidityUSD > 0
                /\ InUSDBand(pool.priceInUSD, medianUSD)
             THEN [totalWeightedUSD |-> rest.totalWeightedUSD + pool.priceInUSD * pool.liquidityUSD,
                   totalLiquidityUSD |-> rest.totalLiquidityUSD + pool.liquidityUSD]
             ELSE rest

\* prices.avgPriceUSD: totalWeightedUSD / totalLiquidityUSD when some liquidity counted, else 0
AvgPriceUSD(pools) ==
    LET sums == WeightedUSD(pools, MedianUSD(pools))
    IN  IF sums.totalLiquidityUSD > 0
        THEN [num |-> sums.totalWeightedUSD, den |-> sums.totalLiquidityUSD]
        ELSE ZeroPrice

CalculateAggregatePrice(pools) ==
    /\ aggregate.pc = "idle"
    /\ aggregate' = [pc |-> "returned", pools |-> pools, medianUSD |-> MedianUSD(pools),
                     avgPriceUSD |-> AvgPriceUSD(pools)]
    /\ UNCHANGED notAggregateVars

\* the caller has read the prices; the next call can be made
AggregateRead ==
    /\ aggregate.pc = "returned"
    /\ aggregate' = AggregateIdle
    /\ UNCHANGED notAggregateVars

(***************************************************************************)
(* services/MulticallService.js: execute, and the Multicall3 contract      *)
(* behind aggregate3 (MULTICALL3_ABI).                                     *)
(***************************************************************************)
\* targets of a sub-call; a call to "X" reverts on chain
CallTargets == {"A", "X"}

CallDatas == {"c1", "c2"}

\* { target, callData, allowFailure }, allowFailure left out, true or false
BatchCalls == [target : CallTargets, callData : CallDatas, allowFailure : {Undefined, "true", "false"}]

BatchCallLists == UNION {[1..n -> BatchCalls] : n \in 0..MaxCalls}

\* what the chain answers to one sub-call
SubCall(call) ==
    IF call.target = "X"
    THEN [success |-> FALSE, returnData |-> <<>>]
    ELSE [success |-> TRUE, returnData |-> <<call.target, call.callData>>]

MulticallIdle == [pc |-> "idle", calls |-> <<>>, results |-> <<>>, error |-> Null]

MulticallInit == multicall = MulticallIdle

\* allowFailure taken as given: a call that leaves it out does not allow failure
AllowFailure_asGiven(call) == call.allowFailure = "true"

\* call.allowFailure !== false
AllowFailure(call) == call.allowFailure # "false"

\* calls.map(call => ({ target, allowFailure, callData }))
FormattedCalls(calls) ==
    [k \in 1..Len(calls) |->
        [target |-> calls[k].target, allowFailure |-> AllowFailure(calls[k]), callData |-> calls[k].callData]]

\* aggregate3 reverts when a sub-call fails that does not allow failure
Aggregate3Reverts(formattedCalls) ==
    \E k \in 1..Len(formattedCalls) :
        ~formattedCalls[k].allowFailure /\ ~SubCall(formattedCalls[k]).success

\* aggregate3: one (success, returnData) per call, in the order of the calls
Aggregate3(formattedCalls) == [k \in 1..Len(formattedCalls) |-> SubCall(formattedCalls[k])]

\* results.map((result, i) => ({ success, returnData, target: calls[i].target }))
ExecuteResults(calls, results) ==
    [k \in 1..Len(results) |->
        [success |-> results[k].success, returnData |-> results[k].returnData, target |-> calls[k].target]]

\* execute up to its await: an empty batch returns [] at once, any other is sent
Execute(calls) ==
    /\ multicall.pc = "idle"
    /\ multicall' = IF Len(calls) = 0
                    THEN [pc |-> "returned", calls |-> calls, results |-> <<>>, error |-> Null]
                    ELSE [pc |-> "sent", calls |-> calls, results |-> <<>>, error |-> Null]
    /\ UNCHANGED notMulticallVars

\* executeWithRetry settles: no endpoint answered, or aggregate3 reverted on each, or
\* it returned
ExecuteSettle(transportOk) ==
    /\ multicall.pc = "sent"
    /\ LET formattedCalls == FormattedCalls(multicall.calls)
       IN  multicall' =
             IF ~transportOk
             THEN [multicall EXCEPT !.pc = "threw", !.error = "transport"]
             ELSE IF Aggregate3Reverts(formattedCalls)
             THEN [multicall EXCEPT !.pc = "threw", !.error = "Multicall3: call failed"]
             ELSE [multicall EXCEPT !.pc = "returned",
                                    !.results = ExecuteResults(multicall.calls, Aggregate3(formattedCalls))]
    /\ UNCHANGED notMulticallVars

\* the caller has the results or the error; the next batch can be made
ExecuteRead ==
    /\ multicall.pc \in {"returned", "threw"}
    /\ multicall' = MulticallIdle
    /\ UNCHANGED notMulticallVars

(***************************************************************************)
(* services/PoolAnalyzer.js: batchFetchPoolData with both protocol batches *)
(* failed, and fallbackSequentialFetch.                                    *)
(***************************************************************************)
\* the missing pools are numbered 1..n in the order of missingPools
FallbackIdle == [pc |-> "idle", n |-> 0, i |-> 0, fetches |-> <<>>, poolDataResults |-> <<>>,
                 enrichedPools |-> <<>>]

FallbackInit == fallback = FallbackIdle

BatchEnd_whole(i, n) == n

\* pools.slice(i, i + BATCH_SIZE) ends at index i + BATCH_SIZE or at the end of the array
BatchEnd(i, n) == IF i + BATCH_SIZE < n THEN i + BATCH_SIZE ELSE n

\* batch.map(poolInfo => this.fetchPoolData(poolInfo).catch(...)): the fetches of the chunk
\* that starts at offset i are sent
StartBatch(fetches, i, n) ==
    [k \in 1..n |-> IF k > i /\ k <= BatchEnd(i, n) THEN "pending" ELSE fetches[k]]

\* what .catch(error => null) gives for a pool whose fetch was rejected
NullPoolData == [isNull |-> TRUE]

\* sequentialResults.filter(p => p !== null)
NotNull(poolDataResults) == SelectSeq(poolDataResults, LAMBDA p : p # NullPoolData)

\* Both protocol batches have failed, so v2Data and v3Data are empty and missingPools holds
\* every candidate pool (n of them); fallbackSequentialFetch(missingPools) runs up to its
\* first await
FallbackSequentialFetch(n) ==
    /\ fallback.pc = "idle"
    /\ n > 0
    /\ fallback' = [pc |-> "fetching", n |-> n, i |-> 0,
                    fetches |-> StartBatch([k \in 1..n |-> "notSent"], 0, n),
                    poolDataResults |-> <<>>, enrichedPools |-> <<>>]
    /\ UNCHANGED notFallbackVars

\* fetchPoolData of pool k settles: with its data, or rejected, which .catch turns into
\* null. When it is the last of its chunk, Promise.all resolves: the chunk's results are
\* pushed in the chunk's order and the next chunk is sent, or the loop ends and
\* batchFetchPoolData pushes the results that are not null.
FetchPoolDataSettle(k, ok) ==
    /\ fallback.pc = "fetching"
    /\ k \in 1..fallback.n
    /\ fallback.fetches[k] = "pending"
    /\ LET fetches == [fallback.fetches EXCEPT ![k] = IF ok THEN "resolved" ELSE "rejected"]
           last == BatchEnd(fallback.i, fallback.n)
           batchResults == [j \in 1..(last - fallback.i) |->
                               IF fetches[fallback.i + j] = "resolved"
                               THEN [address |-> fallback.i + j]
                               ELSE NullPoolData]
           poolDataResults == fallback.poolDataResults \o batchResults
           i == fallback.i + BATCH_SIZE
       IN  IF \E j \in (fallback.i + 1)..last : fetches[j] = "pending"
           THEN fallback' = [fallback EXCEPT !.fetches = fetches]
           ELSE IF i < fallback.n
           THEN fallback' = [fallback EXCEPT !.fetches = StartBatch(fetches, i, fallback.n), !.i = i,
                                             !.poolDataResults = poolDataResults]
           ELSE fallback' = [fallback EXCEPT !.fetches = fetches, !.i = i, !.pc = "returned",
                                             !.poolDataResults = poolDataResults,
                                             !.enrichedPools = NotNull(poolDataResults)]
    /\ UNCHANGED notFallbackVars

\* batchFetchPoolData has returned its pools
FallbackReturn ==
    /\ fallback.pc = "returned"
    /\ fallback' = FallbackIdle
    /\ UNCHANGED notFallbackVars

InitCache ==
    /\ now = 0
    /\ CacheInit
    /\ StoreInit
    /\ AnalyzerInit
    /\ ProviderInit
    /\ FetchInit
    /\ ScorerInit
    /\ OracleInit
    /\ ServedInit
    /\ RoutesInit
    /\ RouterInit
    /\ AggregateInit
    /\ MulticallInit
    /\ FallbackInit

NextCache ==
    \/ Tick
    \/ \E p \in Callers, k \in GosKeys : GosCall(p, k)
    \/ \E p \in Callers : GosPoll(p)
    \/ \E p \in Callers : GosFallThrough(p)
    \/ \E p \in Callers : GosDoubleCheck(p)
    \/ \E p \in Callers, v \in GosValues \cup {Null} : GosFetchReturn(p, v)
    \/ \E p \in Callers : GosFetchThrow(p)
    \/ \E p \in Callers : GosReturn(p)

SpecCache == InitCache /\ [][NextCache]_vars

\* The event loop runs every due timer callback and continuation, and time passes.
\* fetchFn is not under the cache's control: it may never settle.
SpecCacheFair ==
    /\ SpecCache
    /\ WF_vars(Tick)
    /\ \A p \in Callers : WF_vars(GosPoll(p)) /\ WF_vars(GosFallThrough(p))

InitAnalyzer ==
    /\ now = 0
    /\ CacheInit
    /\ StoreInit
    /\ AnalyzerInit
    /\ ProviderInit
    /\ FetchInit
    /\ ScorerInit
    /\ OracleInit
    /\ ServedInit
    /\ RoutesInit
    /\ RouterInit
    /\ AggregateInit
    /\ MulticallInit
    /\ FallbackInit

NextAnalyzer ==
    \/ \E p \in Analyzers, t \in Tokens, f \in BOOLEAN : AnalyzeToken(p, t, f)
    \/ \E p \in Analyzers : AnCacheCheck(p)
    \/ \E p \in Analyzers : AnDedupCheck(p)
    \/ \E p \in Analyzers : AnPerform(p)
    \/ \E p \in Analyzers, ok \in BOOLEAN : AnTokenInfo(p, ok)
    \/ \E p \in Analyzers : AnDiscovery(p)
    \/ \E p \in Analyzers : AnPoolFetch(p)
    \/ \E p \in Analyzers : AnFinally(p)
    \/ \E p \in Analyzers : AnAwaitResume(p)
    \/ \E p \in Analyzers : AnReturn(p)

SpecAnalyzer == InitAnalyzer /\ [][NextAnalyzer]_vars

InitProvider ==
    /\ now = 0
    /\ CacheInit
    /\ StoreInit
    /\ AnalyzerInit
    /\ ProviderInit
    /\ FetchInit
    /\ ScorerInit
    /\ OracleInit
    /\ ServedInit
    /\ RoutesInit
    /\ RouterInit
    /\ AggregateInit
    /\ MulticallInit
    /\ FallbackInit

NextProvider ==
    \/ ProvTick
    \/ ExecuteWithRetry
    \/ ExecOpSucceeds
    \/ \E error \in Errors : ExecOpFails(error)
    \/ ExecDelayDone
    \/ ExecDone

SpecProvider == InitProvider /\ [][NextProvider]_vars

\* Every provider call settles (the connection has a request timeout) and the backoff
\* timer fires.
SpecProviderFair ==
    /\ SpecProvider
    /\ WF_vars(ExecOpSucceeds \/ \E error \in Errors : ExecOpFails(error))
    /\ WF_vars(ExecDelayDone)

InitFetch ==
    /\ now = 0
    /\ CacheInit
    /\ StoreInit
    /\ AnalyzerInit
    /\ ProviderInit
    /\ FetchInit
    /\ ScorerInit
    /\ OracleInit
    /\ ServedInit
    /\ RoutesInit
    /\ RouterInit
    /\ AggregateInit
    /\ MulticallInit
    /\ FallbackInit

NextFetch ==
    \/ \E found \in SUBSET PoolInfos : FetchDiscovered(found)
    \/ \E v2Result \in BatchOutcomes(PoolsOfType(fetch.pools, "V2")),
          v3Result \in BatchOutcomes(PoolsOfType(fetch.pools, "V3")) : FetchBatchesSettle(v2Result, v3Result)
    \/ \E got \in SUBSET PoolInfos : FetchFallbackSettle(got)
    \/ FetchFilter
    \/ FetchReturn

SpecFetch == InitFetch /\ [][NextFetch]_vars

InitScore ==
    /\ now = 0
    /\ CacheInit
    /\ StoreInit
    /\ AnalyzerInit
    /\ ProviderInit
    /\ FetchInit
    /\ ScorerInit
    /\ OracleInit
    /\ ServedInit
    /\ RoutesInit
    /\ RouterInit
    /\ AggregateInit
    /\ MulticallInit
    /\ FallbackInit

NextScore ==
    \/ \E pools \in PoolArrays : ScoreAnalysis(pools)
    \/ \E bnbPrice \in BnbPrices, tradeAmountBNB \in TradeAmountsBNB : ScoreSwap(bnbPrice, tradeAmountBNB)
    \/ \E token \in RouteTokens : ScoreRoute(token)
    \/ ScoreExpire

SpecScore == InitScore /\ [][NextScore]_vars

InitPrice ==
    /\ now = 0
    /\ CacheInit
    /\ StoreInit
    /\ AnalyzerInit
    /\ ProviderInit
    /\ FetchInit
    /\ ScorerInit
    /\ OracleInit
    /\ ServedInit
    /\ RoutesInit
    /\ RouterInit
    /\ AggregateInit
    /\ MulticallInit
    /\ FallbackInit

NextPrice ==
    \/ PriceTick
    \/ \E p \in Refreshers, site \in PriceSites, loaded \in BOOLEAN :
           FetchTokenPricesFromChain(p, site, loaded)
    \/ \E p \in Refreshers, outcome \in ReadOutcomes : FetchPricesSettle(p, outcome)

SpecPrice == InitPrice /\ [][NextPrice]_vars

\* a batched read that was sent settles: executeWithRetry returns or throws
SpecPriceFair ==
    /\ SpecPrice
    /\ WF_vars(\E p \in Refreshers, outcome \in ReadOutcomes : FetchPricesSettle(p, outcome))

InitServed ==
    /\ now = 0
    /\ CacheInit
    /\ StoreInit
    /\ AnalyzerInit
    /\ ProviderInit
    /\ FetchInit
    /\ ScorerInit
    /\ OracleInit
    /\ ServedInit
    /\ RoutesInit
    /\ RouterInit
    /\ AggregateInit
    /\ MulticallInit
    /\ FallbackInit

NextServed ==
    \/ ServedTick
    \/ \E pools \in AnalysisPools, totalMs \in {400, 2500}, pricesStale \in BOOLEAN, partialResults \in BOOLEAN :
           AnalyzeTokenFresh(pools, totalMs, pricesStale, partialResults)
    \/ AnalyzeTokenCached

SpecServed == InitServed /\ [][NextServed]_vars

InitRoutes ==
    /\ now = 0
    /\ CacheInit
    /\ StoreInit
    /\ AnalyzerInit
    /\ ProviderInit
    /\ FetchInit
    /\ ScorerInit
    /\ OracleInit
    /\ ServedInit
    /\ RoutesInit
    /\ RouterInit
    /\ AggregateInit
    /\ MulticallInit
    /\ FallbackInit

NextRoutes ==
    \/ RoutesTick
    \/ \E t \in Triggers : RefreshCache(t)
    \/ \E t \in Triggers, found \in SUBSET RoutePairs : RefreshCacheSettle(t, found)

SpecRoutes == InitRoutes /\ [][NextRoutes]_vars

\* the analyses a cycle has sent settle, so Promise.allSettled resolves
SpecRoutesFair ==
    /\ SpecRoutes
    /\ WF_vars(\E t \in Triggers, found \in SUBSET RoutePairs : RefreshCacheSettle(t, found))

InitRouter ==
    /\ now = 0
    /\ CacheInit
    /\ StoreInit
    /\ AnalyzerInit
    /\ ProviderInit
    /\ FetchInit
    /\ ScorerInit
    /\ OracleInit
    /\ ServedInit
    /\ RoutesInit
    /\ RouterInit
    /\ AggregateInit
    /\ MulticallInit
    /\ FallbackInit

NextRouter ==
    \/ FindBestRoute
    \/ \E tokenInAnalysis \in RouterAnalyses \cup {NullAnalysis},
          tokenOutAnalysis \in RouterAnalyses \cup {NullAnalysis}, scores \in RouteScoreInputs :
           RouterAnalysesSettle(tokenInAnalysis, tokenOutAnalysis, scores)
    \/ \E foundPairs \in SUBSET ThreeHopPairs, score \in RouteScores :
           RouterThreeHopSettle(foundPairs, score)
    \/ RouterDone

SpecRouter == InitRouter /\ [][NextRouter]_vars

InitAggregate ==
    /\ now = 0
    /\ CacheInit
    /\ StoreInit
    /\ AnalyzerInit
    /\ ProviderInit
    /\ FetchInit
    /\ ScorerInit
    /\ OracleInit
    /\ ServedInit
    /\ RoutesInit
    /\ RouterInit
    /\ AggregateInit
    /\ MulticallInit
    /\ FallbackInit

NextAggregate ==
    \/ \E pools \in AggPoolLists : CalculateAggregatePrice(pools)
    \/ AggregateRead

SpecAggregate == InitAggregate /\ [][NextAggregate]_vars

InitBatch ==
    /\ now = 0
    /\ CacheInit
    /\ StoreInit
    /\ AnalyzerInit
    /\ ProviderInit
    /\ FetchInit
    /\ ScorerInit
    /\ OracleInit
    /\ ServedInit
    /\ RoutesInit
    /\ RouterInit
    /\ AggregateInit
    /\ MulticallInit
    /\ FallbackInit

NextBatch ==
    \/ \E calls \in BatchCallLists : Execute(calls)
    \/ \E transportOk \in BOOLEAN : ExecuteSettle(transportOk)
    \/ ExecuteRead

SpecBatch == InitBatch /\ [][NextBatch]_vars

InitFallback ==
    /\ now = 0
    /\ CacheInit
    /\ StoreInit
    /\ AnalyzerInit
    /\ ProviderInit
    /\ FetchInit
    /\ ScorerInit
    /\ OracleInit
    /\ ServedInit
    /\ RoutesInit
    /\ RouterInit
    /\ AggregateInit
    /\ MulticallInit
    /\ FallbackInit

NextFallback ==
    \/ \E n \in 1..MaxMissingPools : FallbackSequentialFetch(n)
    \/ \E k \in 1..MaxMissingPools, ok \in BOOLEAN : FetchPoolDataSettle(k, ok)
    \/ FallbackReturn

SpecFallback == InitFallback /\ [][NextFallback]_vars

FetchesInProgress(k) == {p \in Callers : gosPc[p] = "fetching" /\ gosKey[p] = k}

\* C2: at most one fetch per key is in progress at any time.
C2_SingleFlight == \A k \in GosKeys : Cardinality(FetchesInProgress(k)) <= 1

Running == {"tokenInfo", "discovery", "poolFetch"}

\* the calls with arguments (t, f) whose own _performAnalysis is in progress
AnalysesRunning(t, f) == {p \in Analyzers : aPc[p] \in Running /\ aToken[p] = t /\ aForce[p] = f}

\* C1: among overlapping analyzeToken calls with the same arguments at most one runs an
\* analysis (so at most one discovery batch and one pool-fetch run are upstream); every
\* other such call has no upstream request of its own and awaits the in-flight promise
\* of the call that runs it.
C1_Deduplicated ==
    \A t \in Tokens, f \in BOOLEAN :
        /\ Cardinality(AnalysesRunning(t, f)) <= 1
        /\ \A q \in Analyzers :
              (aPc[q] = "awaiting" /\ aToken[q] = t /\ aForce[q] = f)
                  => /\ aUpstream[q] = "none"
                     /\ aAwaits[q] # q
                     /\ aToken[aAwaits[q]] = t /\ aForce[aAwaits[q]] = f
                     /\ promise[aAwaits[q]] = "pending" => aAwaits[q] \in AnalysesRunning(t, f)

\* two overlapping calls for an uncached token: one has its discovery batch upstream,
\* the other awaits the first one's promise
C1_Witness ==
    \E p, q \in Analyzers :
        /\ p # q
        /\ aToken[p] = aToken[q] /\ ~aForce[p] /\ ~aForce[q]
        /\ GetAnalysis(aToken[p]) = Undefined
        /\ aPc[p] = "discovery" /\ aUpstream[p] = "discovery"
        /\ aPc[q] = "awaiting" /\ aAwaits[q] = p

\* the key is built from token address t: analysis_<t>, v2_<t>, v3_<t> or <t> itself
CarriesAddress(key, t) ==
    \E pre \in {<<>>, S_v2, S_v3, S_analysis} : key = pre \o ValidateAddress(t)

\* no store holds anything for token t
Invalidated(t) ==
    /\ poolCache[AnalysisKey(t)] = Undefined
    /\ tokenCache[ValidateAddress(t)] = Undefined
    /\ priceCache[ValidateAddress(t)] = Undefined
    /\ \A k \in PoolCacheKeys : CarriesAddress(k, t) => poolCache[k] = Undefined

\* C4: a forced call that has passed its cache step and has not yet sent anything
\* upstream sees every store emptied of its token: the analysis, the token entry,
\* the price entry and every pool key carrying the token's address.
C4_InvalidatedBeforeFetch ==
    \A p \in Analyzers :
        (aForce[p] /\ aPc[p] \in {"dedupCheck", "perform"})
            => (Invalidated(aToken[p]) /\ aUpstream[p] = "none")

\* a forced call is about to start fetching for a token that an earlier call had
\* analysed and cached, while the other token's entries are still stored
C4_Witness ==
    \E p, q \in Analyzers : \E t \in Tokens :
        /\ p # q /\ t # aToken[p]
        /\ aForce[p] /\ aPc[p] = "perform"
        /\ aPc[q] = "done" /\ aToken[q] = aToken[p]
        /\ aResult[q].value = AnalysisOf(q)
        /\ Invalidated(aToken[p])
        /\ poolCache[S_v2 \o ValidateAddress(t)] # Undefined
        /\ priceCache[ValidateAddress(t)] # Undefined

(***************************************************************************)
(* executeWithRetry                                                        *)
(***************************************************************************)
\* C5: a running executeWithRetry call always ends, returned or failed. It returns only
\* with the result of a provider call that succeeded, it never starts a pass beyond
\* MaxRetries, and it fails only once MaxRetries passes are complete, with a message that
\* carries the last error a provider raised in this call.
C5_Terminates ==
    /\ (exec.pc \in {"calling", "delay"}) ~> (exec.pc \in {"returned", "failed"})
    /\ [](exec.pc \in {"calling", "delay"} => exec.attempts < MaxRetries)
    /\ [](exec.pc = "returned" => exec.result = "result")
    /\ [](exec.pc = "failed" =>
            /\ exec.attempts = MaxRetries
            /\ exec.raised # Null => exec.result = exec.raised)
    /\ [][(exec.pc # "returned" /\ exec'.pc = "returned") => exec.pc = "calling"]_vars

\* the call has failed after MaxRetries passes in which providers raised errors
C5_Witness ==
    /\ exec.pc = "failed"
    /\ exec.attempts = MaxRetries
    /\ exec.raised # Null
    /\ exec.result = exec.raised
    /\ \E x \in ProviderIndexes : providers[x].failures >= MaxRetries

(***************************************************************************)
(* Partial failure of the protocol batches                                 *)
(***************************************************************************)
BatchResult(type) == IF type = "V2" THEN fetch.v2Result ELSE fetch.v3Result

RecordedStatus(type) ==
    IF type = "V2" THEN fetch.protocolStatus.pancakeswapV2 ELSE fetch.protocolStatus.pancakeswapV3

OtherType(type) == IF type = "V2" THEN "V3" ELSE "V2"

\* the batch of this protocol was rejected and the batch of the other one was not
OnlyBatchFailed(type) ==
    /\ BatchResult(type).error # Null
    /\ BatchResult(OtherType(type)).error = Null

\* the analysis result lists a pool with this address
InResult(address) == \E k \in 1..Len(fetch.result.pools) : fetch.result.pools[k].address = address

\* on chain the pool holds something: a V2 pair with a funded side, a V3 pool with
\* liquidity whose tick is away from the boundary
HoldsLiquidity(data, type) ==
    IF type = "V2"
    THEN data.reserve0 # 0 \/ data.reserve1 # 0
    ELSE /\ data.liquidity # 0
         /\ data.tick < MAX_TICK - TICK_BOUNDARY_THRESHOLD
         /\ data.tick > MIN_TICK + TICK_BOUNDARY_THRESHOLD

BestPoolsEntries ==
    {scorer.bestPools.byLiquidity, scorer.bestPools.byPriceUSD, scorer.bestPools.byPriceBNB,
     scorer.bestPools.byFee, scorer.bestPools.byProtocol.pancakeswap, scorer.bestPools.recommended}

\* the pools the router chose from the cached analysis
RoutePools ==
    IF "legPool" \in DOMAIN scorer.route THEN {scorer.route.legPool, scorer.route.directPool} ELSE {}

\* the addresses of the cached analysis's RUGGED pools
RuggedAddresses ==
    {scorer.pools[k].address : k \in {i \in 1..Len(scorer.pools) : scorer.pools[i].liquidity.status = "RUGGED"}}

\* C7: a pool whose status is RUGGED is in no bestPools entry of the analysis
\* (byLiquidity, byPriceUSD, byPriceBNB, byFee, byProtocol, recommended) and is never the
\* pool the router chooses for a leg or for the direct route.
C7_RuggedNeverChosen ==
    scorer.cached =>
        \A e \in BestPoolsEntries \cup RoutePools : IsPool(e) => e.address \notin RuggedAddresses

\* an analysis holds a RUGGED pool with the lowest fee and the highest price next to a
\* pool that is chosen, and the router has chosen a leg through the RUGGED pool's pair token
C7_Witness ==
    /\ scorer.cached
    /\ RuggedAddresses # {}
    /\ IsPool(scorer.bestPools.byFee)
    /\ IsPool(scorer.bestPools.recommended)
    /\ "legPool" \in DOMAIN scorer.route
    /\ IsPool(scorer.route.legPool)
    /\ \E k \in 1..Len(scorer.pools) :
           /\ scorer.pools[k].liquidity.status = "RUGGED"
           /\ NormalizeAddress(scorer.pools[k].pairToken.address) = NormalizeAddress(scorer.route.token)
           /\ scorer.pools[k].fee < scorer.bestPools.byFee.fee

\* the swap answer names a pool to swap in
SwapSucceeded ==
    /\ scorer.cached
    /\ "answer" \in DOMAIN scorer.swap
    /\ "success" \in DOMAIN scorer.swap.answer
    /\ scorer.swap.answer.success

\* the pool of the cached analysis that the swap answer names
SwapPool == CHOOSE p \in Elems(scorer.pools) : p.address = scorer.swap.answer.pool.address

\* the trade size of the swap answer
SwapTradeUSD == scorer.swap.answer.trade.amountUSD

\* C8: the swap recommendation is blocked, and names no pool, whenever the pool it
\* selected has riskLevel CRITICAL or a safetyScore below 30 for the trade: an answer
\* that names a pool names one that is neither.
C8_UnsafeSwapBlocked ==
    SwapSucceeded =>
        /\ AnalyzePoolForTrade(SwapPool, SwapTradeUSD).riskLevel # "CRITICAL"
        /\ AnalyzePoolForTrade(SwapPool, SwapTradeUSD).safety.score >= 30

\* the pools of the cached analysis the swap chooses among that are tradeable for the trade
TradeablePools ==
    {p \in Elems(scorer.pools) :
         /\ p.liquidity.status \in {"ACTIVE", "WARNING_LIQUIDITY"}
         /\ AnalyzePoolForTrade(p, SwapTradeUSD).tradeable}

\* totalCostPercent of a pool for the trade of the swap answer
TotalCostPercent(p) == AnalyzePoolForTrade(p, SwapTradeUSD).costs.totalCostPercent

\* C9: when at least one pool is tradeable, the recommended pool is the tradeable pool
\* with the lowest totalCostPercent (fee plus estimated slippage), ties broken by the
\* higher liquidity.usd.
C9_LowestCostRecommended ==
    (SwapSucceeded /\ TradeablePools # {}) =>
        /\ SwapPool \in TradeablePools
        /\ \A q \in TradeablePools :
               \/ TotalCostPercent(SwapPool) < TotalCostPercent(q)
               \/ /\ TotalCostPercent(SwapPool) = TotalCostPercent(q)
                  /\ SwapPool.liquidity.usd >= q.liquidity.usd

\* the pools of the cached analysis that the scorer checked for the recommendation
CheckedPools == {p \in Elems(scorer.pools) : IsActivePool(p)}

\* the safety checks the recommendation of the analysis made on a pool
ChecksOf(p) == PerformSafetyChecks(p, 1000, p.liquidity.usd)

\* the checks marked the pool RUG_PULL_DETECTED
MarkedRugPull(p) == \E i \in 1..Len(ChecksOf(p).warnings) : ChecksOf(p).warnings[i] = "RUG_PULL_DETECTED"

\* C10: the safety check marks a pool RUG_PULL_DETECTED, with safetyScore 0 and
\* isUntradeable, when and only when the pair token reserve is below the per-symbol
\* minimum while the analysed token's reserve is greater than 0.
C10_RugPullIffDrained ==
    scorer.cached =>
        \A p \in CheckedPools :
            /\ MarkedRugPull(p) <=>
                   /\ PairTokenAmount(p) < MinPairReserve(ToUpperCase(p.pairToken.symbol))
                   /\ TargetTokenAmount(p) > 0
            /\ MarkedRugPull(p) => ChecksOf(p).safetyScore = 0 /\ ChecksOf(p).isUntradeable

Reading == {p \in Refreshers : oracle.reading[p] # NotReading}

\* C11: at most one batched price read is in flight at any time, and a call to
\* fetchTokenPricesFromChain made while one is in flight sends no batched read and
\* returns the cached prices.
C11_RefreshSingleFlight ==
    /\ Cardinality(Reading) <= 1
    /\ (oracle.last.kind = "call" /\ oracle.last.called /\ oracle.last.inProgress)
           => (~oracle.last.issued /\ oracle.last.returned = CachedPrices(oracle))

C11_Witness ==
    /\ oracle.last.kind = "call"
    /\ oracle.last.called
    /\ oracle.last.inProgress
    /\ Reading # {}
    /\ oracle.last.caller \notin Reading

\* C12: an analysis that finds the prices stale (last update more than 30 s ago) while
\* no refresh is in flight sends a batched price read.
C12_StaleAnalysisReads ==
    (oracle.last.kind = "call" /\ oracle.last.site = "analysis" /\ oracle.last.pricesStale
        /\ ~oracle.last.inProgress)
        => oracle.last.issued

Settles(p) == oracle.reading[p] # NotReading /\ oracle'.reading[p] = NotReading

\* C13: a settling refresh changes the stored BNB price only to the value it decoded,
\* and only when that value is strictly between 100 and 2000; it changes the stored
\* CAKE price only to the value it decoded, and only when that value is strictly
\* between 0.1 and 100; a decoded value outside its band leaves the stored one as it was.
C13_PricesStayInBands ==
    [][\A p \in Refreshers : Settles(p) =>
          /\ oracle'.bnbPriceUSD # oracle.bnbPriceUSD =>
                 /\ oracle'.bnbPriceUSD = oracle'.last.decoded.bnb
                 /\ oracle'.bnbPriceUSD > MIN_BNB_PRICE
                 /\ oracle'.bnbPriceUSD < MAX_BNB_PRICE
          /\ oracle'.cakePrice # oracle.cakePrice =>
                 /\ oracle'.cakePrice = oracle'.last.decoded.cake
                 /\ oracle'.cakePrice > 10
                 /\ oracle'.cakePrice < MAX_CAKE_PRICE * 100
          /\ ~(oracle'.last.decoded.bnb > MIN_BNB_PRICE /\ oracle'.last.decoded.bnb < MAX_BNB_PRICE)
                 => oracle'.bnbPriceUSD = oracle.bnbPriceUSD
          /\ ~(oracle'.last.decoded.cake > 10 /\ oracle'.last.decoded.cake < MAX_CAKE_PRICE * 100)
                 => oracle'.cakePrice = oracle.cakePrice]_vars

\* a refresh decoded a BNB price on the edge of the band, kept the stored one, and
\* stored the CAKE price it decoded
C13_Witness ==
    /\ oracle.last.kind = "settle"
    /\ oracle.last.decoded.bnb \in {MIN_BNB_PRICE, MAX_BNB_PRICE}
    /\ oracle.bnbPriceUSD = oracle.last.before.bnb
    /\ oracle.cakePrice = oracle.last.decoded.cake
    /\ oracle.cakePrice # oracle.last.before.cake

Settled(q) == promise[q] \in {"resolved", "rejected"}

\* C14: the in-flight entry of an analysis that has settled, resolved or rejected, is
\* there only while the call that created it runs its finally block, which deletes it
\* before any other code runs; so a call that finds an entry and waits on it waits on a
\* pending analysis, and a call that follows a failed analysis of its key runs its own.
C14_SettledEntryRemoved ==
    /\ [](\A k \in InFlightKeys :
             (InFlightHas(k) /\ Settled(inFlightRequests[k]))
                 => (cur = inFlightRequests[k] /\ aPc[inFlightRequests[k]] = "settled"))
    /\ [][\A p \in Analyzers :
             (aPc[p] = "dedupCheck" /\ aPc'[p] = "awaiting") => promise[aAwaits'[p]] = "pending"]_vars

\* a call runs its own analysis while the call whose analysis of the same key failed
\* has not yet been answered
C14_Witness ==
    \E p, q \in Analyzers :
        /\ p # q
        /\ aPc[q] = "done"
        /\ aResult[q].value = "error"
        /\ promise[q] = "rejected"
        /\ aToken[p] = aToken[q]
        /\ aForce[p] = aForce[q]
        /\ aPc[p] = "tokenInfo"
        /\ inFlightRequests[InFlightKey(aToken[p], aForce[p])] = p

AnsweredTwice == served.first # NoAnswer /\ served.second # NoAnswer

\* the two answers have the same top-level fields, equal outside meta, and the same
\* meta fields, equal outside the given ones
SameExceptMeta(fields) ==
    /\ DOMAIN served.first = DOMAIN served.second
    /\ \A f \in DOMAIN served.first \ {"meta"} : served.first[f] = served.second[f]
    /\ \A f \in (DOMAIN served.first.meta \cup DOMAIN served.second.meta) \ fields :
           /\ f \in DOMAIN served.first.meta
           /\ f \in DOMAIN served.second.meta
           /\ served.first.meta[f] = served.second.meta[f]

Clears(p) == cur = p /\ aPc[p] = "cacheCheck" /\ aForce[p]

\* C16: clearTokenAnalysis(addr) removes from the pool store only analysis_<addr> and
\* the keys that carry addr as a whole token (addr, v2_addr, v3_addr); every key of
\* another address stays as it was, and so do the token-store and price-store entries
\* of every other address.
C16_ClearsOnlyItsToken ==
    [][\A p \in Analyzers : Clears(p) =>
          /\ \A k \in PoolCacheKeys :
                 poolCache'[k] # poolCache[k] => CarriesAddress(k, aToken[p])
          /\ \A a \in Addresses \ {ValidateAddress(aToken[p])} :
                 tokenCache'[a] = tokenCache[a] /\ priceCache'[a] = priceCache[a]]_vars

\* a forced call has just cleared its token while the stores hold the analysis, the
\* token entry, the price entry and the pool keys of the other token
C16_Witness ==
    \E p \in Analyzers, t \in Tokens :
        /\ t # aToken[p]
        /\ aForce[p]
        /\ aPc[p] = "dedupCheck"
        /\ Invalidated(aToken[p])
        /\ poolCache[AnalysisKey(t)] # Undefined
        /\ tokenCache[ValidateAddress(t)] # Undefined
        /\ priceCache[ValidateAddress(t)] # Undefined
        /\ \A k \in PoolDataKeys : CarriesAddress(k, t) => poolCache[k] # Undefined

(***************************************************************************)
(* executeWithRetry: skipped endpoints and the rotating start              *)
(***************************************************************************)
\* endpoint x has failed more than twice, the last time less than 60 s ago
FailedLately(provs, x) ==
    /\ provs[x].failures > 2
    /\ provs[x].lastFailure # NoFailure
    /\ now - provs[x].lastFailure < 60000

\* the loop runs on in this step: from the start of a call, after the backoff delay, or
\* after a failed provider call
LoopRuns == exec.pc \in {"idle", "delay", "calling"} /\ exec'.pc \in {"calling", "delay", "failed"} /\ exec' # exec

\* the loop positions passed over in this step without a provider call
PassedOver ==
    {j \in 0..(NumProviders - 1) :
        /\ j >= (IF exec.pc = "calling" THEN exec.i + 1 ELSE 0)
        /\ j < (IF exec'.pc = "calling" THEN exec'.i ELSE NumProviders)}

\* C17: the operation is never invoked on an endpoint that has failed more than twice
\* and last failed less than 60 s ago, and an endpoint the loop passes over without
\* invoking the operation is such an endpoint.
C17_SkipsExactlyRecentFailures ==
    /\ [](exec.pc = "calling" => ~FailedLately(providers, ProviderIndex(exec.i)))
    /\ [][LoopRuns => \A j \in PassedOver : FailedLately(providers', ProviderIndex(j))]_vars

\* a call has ended without one provider call: every endpoint was passed over in
\* every pass
C17_Witness ==
    /\ exec.pc = "failed"
    /\ exec.attempts = MaxRetries
    /\ exec.raised = Null
    /\ \A x \in ProviderIndexes : FailedLately(providers, x)

Cleared(x) == providers[x] = [failures |-> 0, lastFailure |-> NoFailure]

CyclesRunning == {t \in Triggers : routes.running[t]}

\* C19: at most one refresh cycle runs at any time, and a refreshCache call that arrives
\* while a cycle runs starts nothing and leaves the cache and the flag as they are.
C19_RefreshCyclesNeverOverlap ==
    /\ [](Cardinality(CyclesRunning) <= 1)
    /\ []((routes.last.kind = "trigger" /\ routes.last.inProgress) => ~routes.last.started)
    /\ [][(CyclesRunning # {} /\ routes'.last # routes.last /\ routes'.last.kind = "trigger")
             => (routes'.cache = routes.cache /\ routes'.isRefreshing = routes.isRefreshing
                 /\ routes'.running = routes.running)]_vars

C19_Witness ==
    /\ routes.last.kind = "trigger"
    /\ routes.last.inProgress
    /\ CyclesRunning # {}
    /\ routes.last.caller \notin CyclesRunning
    /\ \E pair \in RoutePairs : routes.cache[pair] # NoEntry

(***************************************************************************)
(* findBestRoute and a failed analysis                                     *)
(***************************************************************************)
Answered == router.pc \in {"threeHop", "returned", "failed"}

OneAnalysisFailed ==
    (router.tokenInAnalysis = NullAnalysis) # (router.tokenOutAnalysis = NullAnalysis)

AnAnalysisFailed ==
    router.tokenInAnalysis = NullAnalysis \/ router.tokenOutAnalysis = NullAnalysis

AnalysisError == router.pc = "failed" /\ router.error = "Failed to analyze one or both tokens"

\* C20 as stated: when the analysis of exactly one of tokenIn and tokenOut fails,
\* findBestRoute goes on to search for routes and does not fail the request for it.
C20_OneFailureTolerated == (Answered /\ OneAnalysisFailed) => ~AnalysisError

\* C20 amended: when the analysis of tokenIn or of tokenOut fails, findBestRoute
\* searches no route and fails the request with 'Failed to analyze one or both tokens';
\* it searches for routes only when both analyses are there.
C20_AnyFailureFailsRequest ==
    /\ (Answered /\ AnAnalysisFailed) => (AnalysisError /\ router.routes = <<>>)
    /\ (Answered /\ ~AnAnalysisFailed) => ~AnalysisError

C20_Witness ==
    /\ OneAnalysisFailed
    /\ AnalysisError
    /\ router.tokenInAnalysis # NullAnalysis
    /\ router.tokenInAnalysis.direct

(***************************************************************************)
(* C21: for every pool list given to calculateAggregatePrice, the          *)
(* avgPriceUSD it returns is 0 or lies in the closed interval              *)
(* [medianUSD x 0.1, medianUSD x 10].                                      *)
(***************************************************************************)
C21_AvgWithinMedianBand ==
    aggregate.pc = "returned" =>
        \/ aggregate.avgPriceUSD.num = 0
        \/ /\ aggregate.avgPriceUSD.num * OUTLIER_FACTOR >= aggregate.medianUSD * aggregate.avgPriceUSD.den
           /\ aggregate.avgPriceUSD.num <= aggregate.medianUSD * OUTLIER_FACTOR * aggregate.avgPriceUSD.den

\* a call that dropped an outlier with liquidity and averaged the pools left
C21_Witness ==
    /\ aggregate.pc = "returned"
    /\ aggregate.avgPriceUSD.num > 0
    /\ \E k \in 1..Len(aggregate.pools) :
          /\ aggregate.pools[k].priceInUSD > 0
          /\ aggregate.pools[k].liquidityUSD > 0
          /\ ~InUSDBand(aggregate.pools[k].priceInUSD, aggregate.medianUSD)
    /\ \E k \in 1..Len(aggregate.pools) :
          /\ aggregate.pools[k].liquidityUSD > 0
          /\ aggregate.pools[k].priceInUSD # aggregate.medianUSD
          /\ aggregate.pools[k].priceInUSD > 0
          /\ InUSDBand(aggregate.pools[k].priceInUSD, aggregate.medianUSD)

\* the batch came back: one result per call, result k being the outcome of call k
Positional ==
    /\ Len(multicall.results) = Len(multicall.calls)
    /\ \A k \in 1..Len(multicall.calls) :
          /\ multicall.results[k].success = SubCall(multicall.calls[k]).success
          /\ multicall.results[k].returnData = SubCall(multicall.calls[k]).returnData

\* the batch was aborted by a failed sub-call
AbortedBySubCall == multicall.pc = "threw" /\ multicall.error = "Multicall3: call failed"

\* call k of the batch failed on chain
FailedCalls == {k \in 1..Len(multicall.calls) : ~SubCall(multicall.calls[k]).success}

(***************************************************************************)
(* C22, as stated: for every list of calls, execute returns one result per *)
(* call in the order of the calls, and a sub-call that fails never aborts  *)
(* the batch.                                                              *)
(***************************************************************************)
C22_FailedSubCallNeverAborts ==
    /\ multicall.pc = "returned" => Positional
    /\ ~AbortedBySubCall

(***************************************************************************)
(* C22, amended: execute returns one result per call in the order of the   *)
(* calls, and only a failed sub-call that was given allowFailure: false    *)
(* aborts the batch.                                                       *)
(***************************************************************************)
C22_OnlyDisallowedFailureAborts ==
    /\ multicall.pc = "returned" => Positional
    /\ AbortedBySubCall => \E k \in FailedCalls : multicall.calls[k].allowFailure = "false"

\* a batch of two came back with its first call failed and its second answered
C22_Witness ==
    /\ multicall.pc = "returned"
    /\ Len(multicall.calls) = 2
    /\ multicall.calls[1].allowFailure = Undefined
    /\ ~multicall.results[1].success
    /\ multicall.results[2].success
    /\ multicall.results[2].returnData = <<multicall.calls[2].target, multicall.calls[2].callData>>

\* caller p leaves getOrSet's try block: its finally block runs releaseLock
Releases(p) == gosPc[p] \in {"locked", "fetching"} /\ gosPc'[p] = "done"

(***************************************************************************)
(* C23: the release at the end of a getOrSet call only removes the lock    *)
(* that call set itself; a lock that another caller has acquired for the   *)
(* key in the meantime stays in the map.                                   *)
(***************************************************************************)
C23_ReleasesOnlyOwnLock ==
    [][\A p \in Callers :
          (Releases(p) /\ lockHolder[gosKey[p]] \notin {0, p}) =>
              locks'[gosKey[p]] = locks[gosKey[p]]]_vars

\* forced call q has completed and its own analysis is what it returned
ForcedCompleted(q) ==
    /\ aPc[q] = "done"
    /\ aForce[q]
    /\ aResult[q].value = AnalysisOf(q)

(***************************************************************************)
(* C24: once a forced analyzeToken call for a token has completed and      *)
(* cached its result, the cached analysis of the token is not the result   *)
(* of an analysis that was already running when the forced call started.   *)
(***************************************************************************)
C24_ForcedResultNotReplacedByOlder ==
    \A q \in Analyzers :
        ForcedCompleted(q) =>
            \A p \in aOlder[q] : GetAnalysis(aToken[q]) # AnalysisOf(p)

(***************************************************************************)
(* C25: executeWithRetry never fails without having tried the operation:   *)
(* when it throws 'All providers failed', the operation was invoked on at  *)
(* least one endpoint during the call.                                     *)
(***************************************************************************)
C25_FailsOnlyAfterTrying == exec.pc = "failed" => exec.raised # Null

\* the batched read failed, or it came back and neither price could be decoded
NothingDecoded(outcome) == outcome.thrown \/ (~outcome.bnbOk /\ ~outcome.cakeOk)

(***************************************************************************)
(* C26: a refresh whose batched read fails, or that decodes no price,      *)
(* leaves lastPriceUpdate as it was, so the prices keep counting as stale. *)
(***************************************************************************)
C26_FailedRefreshKeepsLastUpdate ==
    [][\A p \in Refreshers :
          (Settles(p) /\ NothingDecoded(oracle'.last.outcome)) =>
              oracle'.lastPriceUpdate = oracle.lastPriceUpdate]_vars

(***************************************************************************)
(* C27: a call of fetchTokenPricesFromChain that takes the fetch lock      *)
(* releases it in the end, on every path out of the call.                  *)
(***************************************************************************)
C27_FetchLockReleased == oracle.fetchLock ~> ~oracle.fetchLock

(***************************************************************************)
(* C28: every refresh cycle of the route cache resets isRefreshing in the  *)
(* end, and a refreshCache call that arrives when no cycle is running      *)
(* starts a new one.                                                       *)
(***************************************************************************)
C28_RefreshFlagReset ==
    /\ routes.isRefreshing ~> ~routes.isRefreshing
    /\ []((routes.last.kind = "trigger" /\ ~routes.last.inProgress) => routes.last.started)

\* a cycle has ended and cached a pair, and a later trigger has started the next cycle
C28_Witness ==
    /\ routes.last.kind = "trigger"
    /\ routes.last.started
    /\ routes.isRefreshing
    /\ \E pair \in RoutePairs : routes.cache[pair] # NoEntry /\ routes.cache[pair] < now

\* findBestRoute is past the direct and two-hop routes
RoutesSearched == router.pc \in {"threeHop", "returned"} \/ (router.pc = "failed" /\ ~AnalysisError)

\* no direct or two-hop route was found, or every one found scores below 50
NoneOrAllLow ==
    Len(router.found) = 0 \/ \A k \in 1..Len(router.found) : router.found[k].score < LOW_SCORE

(***************************************************************************)
(* C29: findBestRoute tries the three-hop routes, one for every pair of a  *)
(* primary and a secondary intermediate, when and only when no direct or   *)
(* two-hop route was found or every route found so far scores below 50.    *)
(***************************************************************************)
C29_ThreeHopIffNoGoodRoute ==
    RoutesSearched =>
        /\ NoneOrAllLow => router.threeHop = ThreeHopPairs
        /\ ~NoneOrAllLow => router.threeHop = {}

\* the per-pool fetches in flight
InFlight == {k \in 1..fallback.n : fallback.fetches[k] = "pending"}

\* the pools whose fetch has settled
SettledFetches == {k \in 1..fallback.n : fallback.fetches[k] \in {"resolved", "rejected"}}

\* the chunk of pool k, counted from 0
ChunkOf(k) == (k - 1) \div BATCH_SIZE

(***************************************************************************)
(* C30: when both protocol batches have failed, the candidate pools are    *)
(* fetched one by one in chunks of 8: a pool's fetch is in flight only     *)
(* when every pool of the earlier chunks has settled, so at most 8 are in  *)
(* flight at once; and the pools returned are exactly the pools whose own  *)
(* fetch succeeded, in their order, whichever other fetches failed.        *)
(***************************************************************************)
C30_FallbackInChunksOfEight ==
    /\ Cardinality(InFlight) <= BATCH_SIZE
    /\ \A k \in InFlight : \A j \in 1..fallback.n : ChunkOf(j) < ChunkOf(k) => j \in SettledFetches
    /\ \A k \in 1..fallback.n : fallback.fetches[k] = "notSent" => \E j \in InFlight : ChunkOf(j) < ChunkOf(k)
    /\ fallback.pc = "returned" =>
          /\ SettledFetches = 1..fallback.n
          /\ Len(fallback.poolDataResults) = fallback.n
          /\ \A k \in 1..fallback.n :
                (fallback.fetches[k] = "resolved") <=> (\E j \in 1..Len(fallback.enrichedPools) : fallback.enrichedPools[j] = [address |-> k])
          /\ \A j \in 1..(Len(fallback.enrichedPools) - 1) :
                fallback.enrichedPools[j].address < fallback.enrichedPools[j + 1].address

\* more than one chunk, fetches failed and succeeded in the first chunk and in the second
C30_Witness ==
    /\ fallback.pc = "returned"
    /\ fallback.n > BATCH_SIZE
    /\ \E k, j \in 1..BATCH_SIZE : fallback.fetches[k] = "rejected" /\ fallback.fetches[j] = "resolved"
    /\ \E k, j \in (BATCH_SIZE + 1)..fallback.n :
          fallback.fetches[k] = "rejected" /\ fallback.fetches[j] = "resolved"

====
